---- MODULE Spec2Model ----
(***************************************************************************)
(* Match simulation of the two-player arena game (GameApp, Player,         *)
(* WeaponState, TaskSystem, World).                                        *)
(*                                                                         *)
(* Units: time in milliseconds, health in thousandths of a hit point, the  *)
(* elevator door ramp in thousandths (doorOpen01 = 1 is 1000).             *)
(*                                                                         *)
(* Geometry, ray casting and the mini-game contents are collaborators of   *)
(* the simulation: a frame receives their answers (what a ray hit, what    *)
(* is near a player, whether a player stands in a fire block) as inputs.   *)
(***************************************************************************)
EXTENDS Integers, Sequences, FiniteSets, TLC

VARIABLES
    app,        \* GameApp: state, elevator, scores, _firstKillDone, _bonusWeapon
    players,    \* GameApp.players: p1, p2 (Player)
    weapons,    \* GameApp.weapons: p1, p2 (WeaponState)
    world,      \* World: elevator door colliders, barrels, fire blocks, bottles, gifts
    tasks,      \* TaskSystem.active: the open task of each player (NoTask = null)
    ui,         \* DOM state the handlers depend on: win screen shown, menu shown
    pending,    \* event loop: suspended click handlers and fade timeouts
    env,        \* which inputs this run's players produce (see Envs)
    spent,      \* trigger pulls of each player in a limited environment
    body,       \* collision unit: a player's box and the colliders around it
    step        \* what the last step did: kills credited, causes of death, shots

vars == <<app, players, weapons, world, tasks, ui, pending, env, spent, body, step>>

P == {"p1", "p2"}

Other(p) == IF p = "p1" THEN "p2" ELSE "p1"

Max(a, b) == IF a >= b THEN a ELSE b

Min(a, b) == IF a <= b THEN a ELSE b

clamp(v, lo, hi) == Max(lo, Min(hi, v))

(***************************************************************************)
(* Bounds of the model.                                                    *)
(***************************************************************************)
\* Click handlers of one button that may be suspended at the same time.
MaxPending == 2

\* Shots the players of the "arsenal" environments fire from one equipped gun.
MaxShots == 2

\* Kills after which the players of the "arsenal" environments stop hitting.
MaxArsenalKills == 1

(***************************************************************************)
(* Program constants.                                                      *)
(***************************************************************************)
WIN_KILLS == 10

\* Longest frame step (ms): dt = min(0.05, elapsed).
DT == 50

ELEVATOR_T == 16000

ELEVATOR_T0 == 10000

FIGHT_MSG_T == 1600

MAX_HP == 100

INVULN_DURATION == 3000

DEATH_TIMER == 700

FIRE_DPS == 25

BARREL_FIRE_LIFETIME == 20000

LASER_FIRE_LIFETIME == 9000

MAX_FIRE_BLOCKS == 36

LASER_DMG == 60

LASER_SPLASH == 10

SHOTGUN_NEAR_DMG == 60

SHOTGUN_FAR_DMG == 30

(***************************************************************************)
(* Weapons.js                                                              *)
(***************************************************************************)
KNIFE == "Knife"

PISTOL == "Pistol"

VANDAL == "Vandal"

SNIPER == "Sniper"

\* The bonus types GameApp and WeaponView use; the Weapons.js that declares
\* them is not among the sources, their parameters follow the specification.
SHOTGUN == "Shotgun"

LASER == "Laser"

BOTTLE == "Bottle"

NoWeapon == "null"

WeaponType == {KNIFE, PISTOL, VANDAL, SNIPER, SHOTGUN, LASER, BOTTLE}

weaponForTaskLevel(level) ==
    IF level <= 0 THEN KNIFE
    ELSE IF level = 1 THEN PISTOL
    ELSE IF level = 2 THEN VANDAL
    ELSE SNIPER

damageForWeapon(type) ==
    CASE type = KNIFE -> 40
      [] type = PISTOL -> 25
      [] type = VANDAL -> 50
      [] type = SNIPER -> 100
      [] OTHER -> 10

\* Magazine-less melee: the Knife, and the melee pickup (Bottle).
IsMelee(type) == type \in {KNIFE, BOTTLE}

\* Default magazine / reserve / fire interval of the bonus types. The
\* specification fixes that ammunition is refilled to the type's defaults and
\* leaves the numbers open; the model takes a small magazine and reserve.
BonusMag(type) == IF type \in {SHOTGUN, LASER} THEN 2 ELSE 0

BonusReserve(type) == IF type \in {SHOTGUN, LASER} THEN 2 ELSE 0

BonusCooldown(type) == IF type \in {SHOTGUN, LASER} THEN 900 ELSE 450

WeaponState0 ==
    [type |-> KNIFE, mag |-> 0, reserve |-> 0, cooldown |-> 0, reloadTimer |-> 0,
     sniperAiming |-> FALSE, sniperZoom01 |-> 0]

\* setWeapon that leaves the timers and the aim of the weapon before.
setWeaponKeepsTimers(w, type) ==
    [w EXCEPT !.type = type,
              !.mag = CASE type = KNIFE -> 0
                        [] type = PISTOL -> 12
                        [] type = VANDAL -> 30
                        [] type = SNIPER -> 5
                        [] OTHER -> BonusMag(type),
              !.reserve = CASE type = KNIFE -> 0
                            [] type = PISTOL -> 48
                            [] type = VANDAL -> 90
                            [] type = SNIPER -> 20
                            [] OTHER -> BonusReserve(type)]

setWeapon(w, type) ==
    [w EXCEPT !.type = type,
              !.cooldown = 0,
              !.reloadTimer = 0,
              !.sniperAiming = FALSE,
              !.sniperZoom01 = 0,
              !.mag = CASE type = KNIFE -> 0
                        [] type = PISTOL -> 12
                        [] type = VANDAL -> 30
                        [] type = SNIPER -> 5
                        [] OTHER -> BonusMag(type),
              !.reserve = CASE type = KNIFE -> 0
                            [] type = PISTOL -> 48
                            [] type = VANDAL -> 90
                            [] type = SNIPER -> 20
                            [] OTHER -> BonusReserve(type)]

getMaxMag(w) ==
    CASE w.type = PISTOL -> 12
      [] w.type = VANDAL -> 30
      [] w.type = SNIPER -> 5
      [] OTHER -> BonusMag(w.type)

canShootIgnoresCooldown(w) ==
    IF w.reloadTimer > 0 THEN FALSE
    ELSE IF IsMelee(w.type) THEN TRUE
    ELSE w.mag > 0

canShoot(w) ==
    IF w.reloadTimer > 0 THEN FALSE
    ELSE IF w.cooldown > 0 THEN FALSE
    ELSE IF IsMelee(w.type) THEN TRUE
    ELSE w.mag > 0

ReloadDuration(type) ==
    IF type = SNIPER THEN 1600 ELSE IF type = VANDAL THEN 1350 ELSE 1100

startReloadOkWhenFull(w) ==
    /\ ~IsMelee(w.type)
    /\ ~(w.reloadTimer > 0)
    /\ ~(w.reserve <= 0)

\* startReload(): the weapon after the call; the call returned true iff the
\* reload timer was started (startReloadOk).
startReloadOk(w) ==
    /\ ~IsMelee(w.type)
    /\ ~(w.reloadTimer > 0)
    /\ ~(w.mag >= getMaxMag(w))
    /\ ~(w.reserve <= 0)

startReload(w) ==
    IF startReloadOk(w) THEN [w EXCEPT !.reloadTimer = ReloadDuration(w.type)] ELSE w

\* Share of the distance to its target the zoom covers in dt, in thousandths:
\* 1 - exp(-10 dt), which is 0.393 for a frame of 50 ms.
ZoomGain(dt) == IF dt = 0 THEN 0 ELSE 393

\* update(dt) that takes what the magazine needs, whatever the reserve holds.
weaponUpdateTakesNeeded(w, dt) ==
    LET cd == IF w.cooldown > 0 THEN Max(0, w.cooldown - dt) ELSE w.cooldown
        rt == IF w.reloadTimer > 0 THEN Max(0, w.reloadTimer - dt) ELSE w.reloadTimer
        done == w.reloadTimer > 0 /\ rt = 0
        take == Max(0, getMaxMag(w) - w.mag)
    IN  [w EXCEPT !.cooldown = cd,
                  !.reloadTimer = rt,
                  !.mag = IF done THEN w.mag + take ELSE w.mag,
                  !.reserve = IF done THEN w.reserve - take ELSE w.reserve]

\* WeaponState.update(dt)
weaponUpdate(w, dt) ==
    LET cd == IF w.cooldown > 0 THEN Max(0, w.cooldown - dt) ELSE w.cooldown
        rt == IF w.reloadTimer > 0 THEN Max(0, w.reloadTimer - dt) ELSE w.reloadTimer
        done == w.reloadTimer > 0 /\ rt = 0
        needed == Max(0, getMaxMag(w) - w.mag)
        take == Min(w.reserve, needed)
        target == IF w.sniperAiming THEN 1000 ELSE 0
    IN  [w EXCEPT !.cooldown = cd,
                  !.reloadTimer = rt,
                  !.mag = IF done THEN w.mag + take ELSE w.mag,
                  !.reserve = IF done THEN w.reserve - take ELSE w.reserve,
                  !.sniperZoom01 =
                      clamp(w.sniperZoom01 + ((target - w.sniperZoom01) * ZoomGain(dt)) \div 1000,
                            0, 1000)]

FireInterval(type) ==
    CASE type = KNIFE -> 450
      [] type = PISTOL -> 220
      [] type = VANDAL -> 110
      [] type = SNIPER -> 850
      [] OTHER -> BonusCooldown(type)

consumeShot(w) ==
    [w EXCEPT !.mag = IF ~IsMelee(w.type) THEN Max(0, w.mag - 1) ELSE w.mag,
              !.cooldown = FireInterval(w.type)]

(***************************************************************************)
(* Player.js                                                               *)
(***************************************************************************)
\* pos is where a player stands, as far as the match logic can tell: "menu",
\* the spot of _resetRound; "anchor", the anchor of its elevator; "cabin",
\* elsewhere in its cabin; "arena" (spawn points included). vel is 0 for the
\* zero vector and 1 otherwise. yaw is one of the fixed facings of
\* setYawPitch(+-PI/2, 0), "plusHalfPi" and "minusHalfPi", or "any" other.
\* pitch is in units of 0.0001 rad.
PITCH_MAX == 13500

\* Pitch a held look key adds in a millisecond: pitchSpeed = 1.8 rad/s.
PITCH_SPEED == 18

\* Pitch a pixel of pointer motion adds: sens = 0.0021 rad.
PITCH_SENS == 21

Player0 ==
    [hp |-> MAX_HP * 1000, dead |-> FALSE, deathTimer |-> 0, invulnTimer |-> 0,
     taskLevel |-> 0, controlsLocked |-> FALSE, hasBottle |-> FALSE,
     bottlePrevWeapon |-> NoWeapon, pos |-> "arena", vel |-> 0, yaw |-> "any",
     pitch |-> 0]

startInvuln(pl) == [pl EXCEPT !.invulnTimer = INVULN_DURATION]

\* takeDamage without the check of the dead flag.
takeDamageIgnoresDead(pl, amount) ==
    IF pl.invulnTimer > 0 THEN pl
    ELSE LET hp == Max(0, pl.hp - amount)
         IN  IF hp <= 0
             THEN [pl EXCEPT !.hp = hp, !.dead = TRUE, !.deathTimer = DEATH_TIMER]
             ELSE [pl EXCEPT !.hp = hp]

\* takeDamage without the clamp of the health at zero.
takeDamageNoClamp(pl, amount) ==
    IF pl.invulnTimer > 0 \/ pl.dead THEN pl
    ELSE LET hp == pl.hp - amount
         IN  IF hp <= 0
             THEN [pl EXCEPT !.hp = hp, !.dead = TRUE, !.deathTimer = DEATH_TIMER]
             ELSE [pl EXCEPT !.hp = hp]

\* takeDamage(amount): the player after the call, and whether it returned true.
takeDamageKills(pl, amount) ==
    /\ ~(pl.invulnTimer > 0 \/ pl.dead)
    /\ Max(0, pl.hp - amount) <= 0

takeDamage(pl, amount) ==
    IF pl.invulnTimer > 0 \/ pl.dead THEN pl
    ELSE LET hp == Max(0, pl.hp - amount)
         IN  IF hp <= 0
             THEN [pl EXCEPT !.hp = hp, !.dead = TRUE, !.deathTimer = DEATH_TIMER]
             ELSE [pl EXCEPT !.hp = hp]

\* respawnAt that leaves the health as it was.
respawnAtKeepsHp(pl, pos) ==
    startInvuln([pl EXCEPT !.dead = FALSE,
                           !.vel = 0,
                           !.pos = pos,
                           !.hasBottle = FALSE,
                           !.bottlePrevWeapon = NoWeapon])

respawnAt(pl, pos) ==
    startInvuln([pl EXCEPT !.dead = FALSE,
                           !.hp = MAX_HP * 1000,
                           !.vel = 0,
                           !.pos = pos,
                           !.hasBottle = FALSE,
                           !.bottlePrevWeapon = NoWeapon])

setYawPitch(pl, yaw, pitch) ==
    [pl EXCEPT !.yaw = yaw, !.pitch = clamp(pitch, -PITCH_MAX, PITCH_MAX)]

(***************************************************************************)
(* World.js                                                                *)
(***************************************************************************)
\* Barrels and bottles of the arena the model keeps track of.
NBarrels == 1

NBottles == 1

MAX_GIFTS == 2

World0 ==
    [doorDisabled |-> [p \in P |-> FALSE],
     exploded |-> {},          \* ids of the barrels with exploded = true
     barrelOff |-> {},         \* ids of the barrels with collider.disabled = true
     fire |-> <<>>,            \* fireBlocks: remaining lifetime t of each, oldest first
     picked |-> {},            \* ids of the bottles with picked = true
     gifts |-> 0]              \* gifts in state 'ready'

\* setElevatorDoorOpen(key, open01): the door collider of cabin key.
setElevatorDoorOpen(w, key, open01) ==
    [w EXCEPT !.doorDisabled[key] = (open01 > 800)]

\* _spawnFireBlock(x, z, {lifetime}): the oldest block goes when the cap is hit.
spawnFireBlock(w, lifetime) ==
    LET kept == IF Len(w.fire) >= MAX_FIRE_BLOCKS THEN Tail(w.fire) ELSE w.fire
    IN  [w EXCEPT !.fire = Append(kept, lifetime)]

\* explodeBarrel(id) returns a position iff the barrel had not exploded.
explodeBarrelHits(w, id) == id \in 1..NBarrels /\ id \notin w.exploded

\* explodeBarrel without the test of the exploded flag.
explodeBarrelAgain(w, id) ==
    IF id \notin 1..NBarrels THEN w
    ELSE LET w1 == [w EXCEPT !.exploded = @ \cup {id}, !.barrelOff = @ \cup {id}]
             w2 == spawnFireBlock(w1, BARREL_FIRE_LIFETIME)
             w3 == spawnFireBlock(w2, BARREL_FIRE_LIFETIME)
             w4 == spawnFireBlock(w3, BARREL_FIRE_LIFETIME)
         IN  spawnFireBlock(w4, BARREL_FIRE_LIFETIME)

explodeBarrel(w, id) ==
    IF ~explodeBarrelHits(w, id) THEN w
    ELSE LET w1 == [w EXCEPT !.exploded = @ \cup {id}, !.barrelOff = @ \cup {id}]
             w2 == spawnFireBlock(w1, BARREL_FIRE_LIFETIME)
             w3 == spawnFireBlock(w2, BARREL_FIRE_LIFETIME)
             w4 == spawnFireBlock(w3, BARREL_FIRE_LIFETIME)
         IN  spawnFireBlock(w4, BARREL_FIRE_LIFETIME)

\* World.update(dt), fire blocks: t -= dt, a block with t <= 0 is removed.
worldUpdate(w, dt) ==
    LET aged == [i \in 1..Len(w.fire) |-> w.fire[i] - dt]
    IN  [w EXCEPT !.fire = SelectSeq(aged, LAMBDA t : t > 0)]

\* spawnGift lets at most MAX_GIFTS unopened gifts exist; a gift that has
\* landed is 'ready'.
giftLands(w) == IF w.gifts < MAX_GIFTS THEN [w EXCEPT !.gifts = @ + 1] ELSE w

(***************************************************************************)
(* _resolveWorldCollisions. Lengths are in centimetres. A body is the      *)
(* position and the horizontal velocity of a player; its box reaches       *)
(* PLAYER_RADIUS to each side in x and z and PLAYER_HEIGHT upwards.        *)
(***************************************************************************)
PLAYER_RADIUS == 45

PLAYER_HEIGHT == 175

NoBody ==
    [pos |-> [x |-> 0, y |-> 0, z |-> 0], vel |-> [x |-> 0, y |-> 0, z |-> 0],
     onGround |-> TRUE, colliders |-> <<>>]

\* The test that lets the loop skip a collider, negated.
boxesMeet(pos, c) ==
    ~(\/ pos.x + PLAYER_RADIUS < c.min.x
      \/ pos.x - PLAYER_RADIUS > c.max.x
      \/ pos.y + PLAYER_HEIGHT < c.min.y
      \/ pos.y > c.max.y
      \/ pos.z + PLAYER_RADIUS < c.min.z
      \/ pos.z - PLAYER_RADIUS > c.max.z)

\* The body of the loop with a push that always goes towards -x or -z.
resolveOnePushesDown(b, c) ==
    LET overlapX == Min(b.pos.x + PLAYER_RADIUS - c.min.x, c.max.x - (b.pos.x - PLAYER_RADIUS))
        overlapZ == Min(b.pos.z + PLAYER_RADIUS - c.min.z, c.max.z - (b.pos.z - PLAYER_RADIUS))
    IN  IF c.disabled \/ ~boxesMeet(b.pos, c) THEN b
        ELSE IF overlapX < overlapZ
        THEN [b EXCEPT !.pos.x = @ - overlapX, !.vel.x = 0]
        ELSE [b EXCEPT !.pos.z = @ - overlapZ, !.vel.z = 0]

\* The body of the loop for one collider c. The player is left of the
\* centre of the box, (min + max) * 0.5, iff twice its x is below min + max.
resolveOne(b, c) ==
    LET overlapX == Min(b.pos.x + PLAYER_RADIUS - c.min.x, c.max.x - (b.pos.x - PLAYER_RADIUS))
        overlapZ == Min(b.pos.z + PLAYER_RADIUS - c.min.z, c.max.z - (b.pos.z - PLAYER_RADIUS))
        dirX == IF 2 * b.pos.x < c.min.x + c.max.x THEN -1 ELSE 1
        dirZ == IF 2 * b.pos.z < c.min.z + c.max.z THEN -1 ELSE 1
    IN  IF c.disabled \/ ~boxesMeet(b.pos, c) THEN b
        ELSE IF overlapX < overlapZ
        THEN [b EXCEPT !.pos.x = @ + dirX * overlapX, !.vel.x = 0]
        ELSE [b EXCEPT !.pos.z = @ + dirZ * overlapZ, !.vel.z = 0]

\* The bodies the loop goes through: the body it starts with, then the body
\* after each collider of the list.
RECURSIVE resolvePasses(_, _)
resolvePasses(b, colliders) ==
    IF colliders = <<>> THEN <<b>>
    ELSE <<b>> \o resolvePasses(resolveOne(b, Head(colliders)), Tail(colliders))

resolveWorldCollisions(b, colliders) ==
    LET passes == resolvePasses(b, colliders) IN passes[Len(passes)]

(***************************************************************************)
(* _updateMovement on a body. Velocities are in cm/s, dt in ms, factors    *)
(* and the components of a direction in thousandths; a product is rounded  *)
(* towards zero, as a product of floats that underflows is.                *)
(***************************************************************************)
WALK_SPEED == 600

BOTTLE_SPEED == 690

ZOOM_SPEED == 330

BOTTLE_ZOOM_SPEED == 379

ZOOM_SLOW == 200

ACCEL == 2400

GRAVITY == 1800

JUMP_SPEED == 750

\* The frame times a movement is computed with: none, 16 ms, the cap DT.
MoveDts == {0, 16, DT}

\* Math.exp(-10 * dt)
Damp(dt) ==
    CASE dt = 0 -> 1000
      [] dt = 16 -> 852
      [] dt = DT -> 607

Times(v, k) == IF v >= 0 THEN (v * k) \div 1000 ELSE -(((-v) * k) \div 1000)

\* Math.hypot(a, b), rounded down.
Hypot(a, b) ==
    CHOOSE r \in 0..(Max(a, -a) + Max(b, -b)) :
        r * r <= a * a + b * b /\ (r + 1) * (r + 1) > a * a + b * b

\* sin and cos of a yaw of q quarter turns.
SinQ(q) == CASE q = 0 -> 0 [] q = 1 -> 1 [] q = 2 -> 0 [] q = 3 -> -1

CosQ(q) == CASE q = 0 -> 1 [] q = 1 -> 0 [] q = 2 -> -1 [] q = 3 -> 0

NoKeys == [forward |-> FALSE, back |-> FALSE, left |-> FALSE, right |-> FALSE, jump |-> FALSE]

\* _updateMovement with a damping that overshoots: vel -= vel * 24 * dt.
updateMovementOvershoots(b, pl, w, yawQ, keys, dt) ==
    LET moveX == (IF keys.right THEN 1 ELSE 0) - (IF keys.left THEN 1 ELSE 0)
        moveZ == (IF keys.forward THEN 1 ELSE 0) - (IF keys.back THEN 1 ELSE 0)
        unit == IF moveX # 0 /\ moveZ # 0 THEN 707 ELSE 1000
        dirX == CosQ(yawQ) * moveX * unit - SinQ(yawQ) * moveZ * unit
        dirZ == -SinQ(yawQ) * moveX * unit - CosQ(yawQ) * moveZ * unit
        va == [b.vel EXCEPT !.x = @ + Times(Times(dirX, ACCEL), dt),
                            !.z = @ + Times(Times(dirZ, ACCEL), dt)]
        vd == [va EXCEPT !.x = @ - Times(@, 24 * dt), !.z = @ - Times(@, 24 * dt)]
        b1 == [b EXCEPT !.vel = vd,
                        !.pos.x = @ + Times(vd.x, dt), !.pos.z = @ + Times(vd.z, dt)]
    IN  IF pl.dead \/ pl.controlsLocked THEN b
        ELSE resolveWorldCollisions(b1, b.colliders)

updateMovementBody(b, pl, w, yawQ, keys, dt) ==
    LET base == IF w.type = BOTTLE \/ pl.hasBottle THEN BOTTLE_SPEED ELSE WALK_SPEED
        slow == w.type = SNIPER /\ w.sniperZoom01 > ZOOM_SLOW
        speed == IF ~slow THEN base
                 ELSE IF base = BOTTLE_SPEED THEN BOTTLE_ZOOM_SPEED ELSE ZOOM_SPEED
        moveX == (IF keys.right THEN 1 ELSE 0) - (IF keys.left THEN 1 ELSE 0)
        moveZ == (IF keys.forward THEN 1 ELSE 0) - (IF keys.back THEN 1 ELSE 0)
        unit == IF moveX # 0 /\ moveZ # 0 THEN 707 ELSE 1000
        mx == moveX * unit
        mz == moveZ * unit
        dirX == CosQ(yawQ) * mx - SinQ(yawQ) * mz
        dirZ == -SinQ(yawQ) * mx - CosQ(yawQ) * mz
        va == [b.vel EXCEPT !.x = @ + Times(Times(dirX, ACCEL), dt),
                            !.z = @ + Times(Times(dirZ, ACCEL), dt)]
        vd == [va EXCEPT !.x = Times(@, Damp(dt)), !.z = Times(@, Damp(dt))]
        flatSpeed == Hypot(vd.x, vd.z)
        vc == IF vd.x * vd.x + vd.z * vd.z > speed * speed
              THEN [vd EXCEPT !.x = (@ * speed) \div flatSpeed, !.z = (@ * speed) \div flatSpeed]
              ELSE vd
        vg == [vc EXCEPT !.y = @ - Times(GRAVITY, dt)]
        jumps == keys.jump /\ b.onGround
        vj == IF jumps THEN [vg EXCEPT !.y = JUMP_SPEED] ELSE vg
        b1 == [b EXCEPT !.vel = vj,
                        !.onGround = IF jumps THEN FALSE ELSE @,
                        !.pos.x = @ + Times(vj.x, dt),
                        !.pos.y = @ + Times(vj.y, dt),
                        !.pos.z = @ + Times(vj.z, dt)]
        b2 == IF b1.pos.y < 0
              THEN [b1 EXCEPT !.pos.y = 0, !.vel.y = 0, !.onGround = TRUE]
              ELSE b1
    IN  IF pl.dead \/ pl.controlsLocked THEN b
        ELSE resolveWorldCollisions(b2, b.colliders)

(***************************************************************************)
(* GameApp.js: the game as one record, and the methods that transform it.  *)
(***************************************************************************)
NoTask == -1

\* A reload that is being followed: magazine and reserve when it started,
\* and the time WeaponState.update has counted down since.
NoReload == [on |-> FALSE, by |-> "none", mag |-> 0, reserve |-> 0, elapsed |-> 0]

NoStep ==
    [op |-> "init",                      \* the step: "frame", "toMenu", "fadeTimeout", ...
     from |-> "MENU",                    \* GameApp.state before the step
     who |-> "p1",                       \* takeDamage, respawnAt called directly: on whom,
     amount |-> 0,                       \*   with what amount,
     barrel |-> 0,                       \* explodeBarrel called directly: with what id
     passes |-> <<>>,                    \* _resolveWorldCollisions: the bodies it went through
     arg |-> NoWeapon,                   \* setWeapon called directly: with what type,
     again |-> FALSE,                    \*   and whether right after the same call
     ret |-> FALSE,                      \*   and what takeDamage returned
     credited |-> {},                    \* players _onKill was called for
     killedBy |-> [p \in P |-> "none"],  \* what brought p's hp to 0: "attack", "hazard"
     hit |-> {},                         \* players an attack damaged
     refused |-> {},                     \* players whose takeDamage call was refused
     fired |-> {},                       \* players that fired a shot
     spawned |-> FALSE,                  \* _spawnInElevator ran
     respawned |-> {},                   \* players _maybeRespawn respawned
     struck |-> {},                      \* players whose bottle met the target's hitbox
     held |-> [p \in P |-> NoWeapon],    \* the type p held as it picked a bottle up
     intent |-> [p \in P |-> "idle"],    \* keys of a player dead or locked as the frame began
     asked |-> [p \in P |-> NoTask],     \* use pressed next to the arcade of this task
     used |-> [p \in P |-> "idle"],      \* use pressed next to: "gift", "bottle", "arcade", "none"
     opened |-> {},                      \* players _tryOpenTask opened a task for
     hazard |-> {},                      \* players a fire block called takeDamage on
     completed |-> {},                   \* players whose open task was completed
     closed |-> {},                      \* players whose open task was closed
     reload |-> [p \in P |-> NoReload]]  \* the reload of p that is being followed

App0 ==
    [state |-> "MENU",
     lastTs |-> FALSE,
     elevator |-> [t |-> ELEVATOR_T0, doorOpen01 |-> 0, fightMsgTimer |-> 0],
     scores |-> [p \in P |-> 0],
     firstKillDone |-> FALSE,
     bonusWeapon |-> [p \in P |-> NoWeapon]]

Game0 ==
    [app |-> App0,
     players |-> [p \in P |-> Player0],
     weapons |-> [p \in P |-> WeaponState0],
     world |-> World0,
     tasks |-> [p \in P |-> NoTask],
     ui |-> [menuMode |-> FALSE, winShown |-> FALSE, invOpen |-> FALSE],
     step |-> NoStep]

MenuYaw(p) == IF p = "p1" THEN "plusHalfPi" ELSE "minusHalfPi"

\* TaskSystem.close without the onClose callback.
taskCloseKeepsLock(G, p) ==
    [G EXCEPT !.tasks[p] = NoTask,
              !.step.closed = IF G.tasks[p] # NoTask THEN @ \cup {p} ELSE @]

\* TaskSystem.close(playerId): active = null, then onClose unlocks the controls.
taskClose(G, p) ==
    [G EXCEPT !.tasks[p] = NoTask,
              !.players[p].controlsLocked = FALSE,
              !.step.closed = IF G.tasks[p] # NoTask THEN @ \cup {p} ELSE @]

\* _resetRound that leaves the scores alone.
resetRoundKeepsScores(G) ==
    LET reset(p) ==
            setYawPitch(respawnAt([G.players[p] EXCEPT !.taskLevel = 0], "menu"), MenuYaw(p), 0)
    IN  [G EXCEPT !.app.firstKillDone = FALSE,
                  !.players = [p \in P |-> reset(p)],
                  !.weapons = [p \in P |-> setWeapon(G.weapons[p], weaponForTaskLevel(0))]]

resetRound(G) ==
    LET reset(p) ==
            setYawPitch(respawnAt([G.players[p] EXCEPT !.taskLevel = 0], "menu"), MenuYaw(p), 0)
    IN  [G EXCEPT !.app.scores = [p \in P |-> 0],
                  !.app.firstKillDone = FALSE,
                  !.players = [p \in P |-> reset(p)],
                  !.weapons = [p \in P |-> setWeapon(G.weapons[p], weaponForTaskLevel(0))]]

\* WeatherSystem.openInventory: the overlay shows, onInventoryOpen locks both
\* players.
openInventory(G) ==
    [G EXCEPT !.ui.invOpen = TRUE,
              !.players = [p \in P |-> [G.players[p] EXCEPT !.controlsLocked = TRUE]]]

\* WeatherSystem.closeInventory: the overlay hides, onInventoryClose unlocks.
closeInventory(G) ==
    [G EXCEPT !.ui.invOpen = FALSE,
              !.players = [p \in P |-> [G.players[p] EXCEPT !.controlsLocked = FALSE]]]

\* _applyMenuMode(isMenu): outside the menu the bag and the inventory overlay
\* are hidden.
applyMenuMode(G, isMenu) ==
    [G EXCEPT !.ui.menuMode = isMenu, !.ui.invOpen = IF isMenu THEN @ ELSE FALSE]

toMenu(G) ==
    LET G1 == [applyMenuMode(G, TRUE) EXCEPT !.app.state = "MENU", !.ui.winShown = FALSE]
        G2 == taskClose(taskClose(G1, "p1"), "p2")
        G3 == [G2 EXCEPT !.players = [p \in P |-> [G2.players[p] EXCEPT !.controlsLocked = FALSE]]]
    IN  resetRound(G3)

spawnInElevator(G) ==
    [G EXCEPT !.players = [p \in P |-> setYawPitch(respawnAt(G.players[p], "anchor"),
                                                            MenuYaw(p), 0)],
              !.weapons = [p \in P |->
                              setWeapon(G.weapons[p], weaponForTaskLevel(G.players[p].taskLevel))],
              !.step.spawned = TRUE]

\* _beginElevatorPhase that does not wind the countdown up again.
beginElevatorPhaseKeepsTimer(G) ==
    LET G1 == [G EXCEPT !.app.state = "ELEVATOR",
                        !.ui.winShown = FALSE,
                        !.app.elevator.doorOpen01 = 0,
                        !.app.elevator.fightMsgTimer = 0]
        G2 == [G1 EXCEPT !.world = setElevatorDoorOpen(setElevatorDoorOpen(G1.world, "p1", 0), "p2", 0)]
    IN  spawnInElevator(G2)

beginElevatorPhase(G) ==
    LET G1 == [G EXCEPT !.app.state = "ELEVATOR",
                        !.ui.winShown = FALSE,
                        !.app.elevator = [t |-> ELEVATOR_T, doorOpen01 |-> 0, fightMsgTimer |-> 0]]
        G2 == [G1 EXCEPT !.world = setElevatorDoorOpen(setElevatorDoorOpen(G1.world, "p1", 0), "p2", 0)]
    IN  spawnInElevator(G2)

enterWin(G, winnerId) ==
    LET G1 == [G EXCEPT !.app.state = "WIN", !.ui.winShown = TRUE]
        G2 == taskClose(taskClose(G1, "p1"), "p2")
    IN  [G2 EXCEPT !.players = [p \in P |-> [G2.players[p] EXCEPT !.controlsLocked = FALSE]]]

\* _onKill that enters WIN only above WIN_KILLS.
onKillLateWin(G, killerId) ==
    LET G1 == [G EXCEPT !.app.firstKillDone = TRUE,
                        !.app.scores[killerId] = @ + 1,
                        !.step.credited = @ \cup {killerId}]
    IN  IF G1.app.scores[killerId] > WIN_KILLS THEN enterWin(G1, killerId) ELSE G1

onKill(G, killerId) ==
    LET G1 == [G EXCEPT !.app.firstKillDone = TRUE,
                        !.app.scores[killerId] = @ + 1,
                        !.step.credited = @ \cup {killerId}]
    IN  IF G1.app.scores[killerId] >= WIN_KILLS THEN enterWin(G1, killerId) ELSE G1

(***************************************************************************)
(* Attacks. A ray is what the raycaster answered for the shot:             *)
(* [kind |-> "miss" | "target" | "barrel", id |-> barrel id, close |->     *)
(* the target is within the shotgun's near range].                         *)
(***************************************************************************)
\* target.takeDamage(amount) called by the opponent's attack; the step notes
\* whether the call was refused, and whether it brought the health to zero.
attackDamage(G, targetId, amount) ==
    LET pl == G.players[targetId]
        isRefused == pl.invulnTimer > 0 \/ pl.dead
    IN  [G EXCEPT !.players[targetId] = takeDamage(pl, amount),
                  !.step.killedBy[targetId] =
                      IF takeDamageKills(pl, amount) THEN "attack" ELSE @,
                  !.step.hit = IF isRefused THEN @ ELSE @ \cup {targetId},
                  !.step.refused = IF isRefused THEN @ \cup {targetId} ELSE @]

\* The ray list holds the target's hitbox only while the target is alive.
hitsTarget(G, targetId, ray) == ray.kind = "target" /\ ~G.players[targetId].dead

noteShot(G, shooterId) ==
    [G EXCEPT !.weapons[shooterId] = consumeShot(@), !.step.fired = @ \cup {shooterId}]

shootHitscanNoReload(G, shooterId, targetId, ray) ==
    LET w == G.weapons[shooterId]
        dmg == damageForWeapon(w.type) * 1000
        died == takeDamageKills(G.players[targetId], dmg)
        Gd == attackDamage(G, targetId, dmg)
    IN  IF ~canShoot(w) THEN G
        ELSE IF ray.kind = "barrel"
        THEN noteShot([G EXCEPT !.world = explodeBarrel(@, ray.id)], shooterId)
        ELSE IF hitsTarget(G, targetId, ray)
        THEN noteShot(IF died THEN onKill(Gd, shooterId) ELSE Gd, shooterId)
        ELSE noteShot(G, shooterId)

shootHitscan(G, shooterId, targetId, ray) ==
    LET w == G.weapons[shooterId]
        dmg == damageForWeapon(w.type) * 1000
        died == takeDamageKills(G.players[targetId], dmg)
        Gd == attackDamage(G, targetId, dmg)
    IN  IF ~canShoot(w)
        THEN IF w.mag = 0 THEN [G EXCEPT !.weapons[shooterId] = startReload(w)] ELSE G
        ELSE IF ray.kind = "barrel"
        THEN noteShot([G EXCEPT !.world = explodeBarrel(@, ray.id)], shooterId)
        ELSE IF hitsTarget(G, targetId, ray)
        THEN noteShot(IF died THEN onKill(Gd, shooterId) ELSE Gd, shooterId)
        ELSE noteShot(G, shooterId)

\* _knifeAttack whose swing costs nothing when it whiffs.
knifeAttackWhiffFree(G, shooterId, targetId, ray) ==
    LET w == G.weapons[shooterId]
        dmg == damageForWeapon(KNIFE) * 1000
        died == takeDamageKills(G.players[targetId], dmg)
        Gd == attackDamage(G, targetId, dmg)
    IN  IF ~canShoot(w) THEN G
        ELSE IF hitsTarget(G, targetId, ray)
        THEN noteShot(IF died THEN onKill(Gd, shooterId) ELSE Gd, shooterId)
        ELSE [G EXCEPT !.step.fired = @ \cup {shooterId}]

knifeAttack(G, shooterId, targetId, ray) ==
    LET w == G.weapons[shooterId]
        dmg == damageForWeapon(KNIFE) * 1000
        died == takeDamageKills(G.players[targetId], dmg)
        Gd == attackDamage(G, targetId, dmg)
    IN  IF ~canShoot(w) THEN G
        ELSE IF ray.kind = "barrel"
        THEN noteShot([G EXCEPT !.world = explodeBarrel(@, ray.id)], shooterId)
        ELSE IF hitsTarget(G, targetId, ray)
        THEN noteShot(IF died THEN onKill(Gd, shooterId) ELSE Gd, shooterId)
        ELSE noteShot(G, shooterId)

\* _breakBottle that always hands the Knife back.
breakBottleToKnife(G, shooterId) ==
    [G EXCEPT !.players[shooterId].hasBottle = FALSE,
              !.players[shooterId].bottlePrevWeapon = NoWeapon,
              !.weapons[shooterId] = setWeapon(@, KNIFE)]

breakBottle(G, shooterId) ==
    LET pl == G.players[shooterId]
        prev == IF pl.bottlePrevWeapon = NoWeapon THEN KNIFE ELSE pl.bottlePrevWeapon
    IN  [G EXCEPT !.players[shooterId].hasBottle = FALSE,
                  !.players[shooterId].bottlePrevWeapon = NoWeapon,
                  !.weapons[shooterId] = setWeapon(@, prev)]

bottleAttack(G, shooterId, targetId, ray) ==
    LET w == G.weapons[shooterId]
        dmg == damageForWeapon(BOTTLE) * 1000
        died == takeDamageKills(G.players[targetId], dmg)
        Gh == [attackDamage(G, targetId, dmg) EXCEPT !.step.struck = @ \cup {shooterId}]
        Gb == breakBottle(Gh, shooterId)
    IN  IF ~canShoot(w) THEN G
        ELSE IF hitsTarget(G, targetId, ray)
        THEN noteShot(IF died THEN onKill(Gb, shooterId) ELSE Gb, shooterId)
        ELSE noteShot(G, shooterId)

shootShotgun(G, shooterId, targetId, ray) ==
    LET w == G.weapons[shooterId]
        target == G.players[targetId]
        dmg == (IF ray.close THEN SHOTGUN_NEAR_DMG ELSE SHOTGUN_FAR_DMG) * 1000
        died == takeDamageKills(target, dmg)
        Gd == attackDamage(G, targetId, dmg)
    IN  IF ~canShoot(w)
        THEN IF w.mag = 0 THEN [G EXCEPT !.weapons[shooterId] = startReload(w)] ELSE G
        ELSE IF hitsTarget(G, targetId, ray) /\ ~target.dead /\ target.invulnTimer <= 0
        THEN noteShot(IF died THEN onKill(Gd, shooterId) ELSE Gd, shooterId)
        ELSE noteShot(G, shooterId)

shootLaser(G, shooterId, targetId, ray) ==
    LET w == G.weapons[shooterId]
        Gf == [G EXCEPT !.world = spawnFireBlock(spawnFireBlock(@, LASER_FIRE_LIFETIME),
                                                 LASER_FIRE_LIFETIME)]
        died == takeDamageKills(Gf.players[targetId], LASER_DMG * 1000)
        Gd == attackDamage(Gf, targetId, LASER_DMG * 1000)
        Gs == IF ~died THEN attackDamage(Gd, targetId, LASER_SPLASH * 1000) ELSE Gd
    IN  IF ~canShoot(w)
        THEN IF w.mag = 0 THEN [G EXCEPT !.weapons[shooterId] = startReload(w)] ELSE G
        ELSE IF hitsTarget(G, targetId, ray)
        THEN noteShot(IF died THEN onKill(Gs, shooterId) ELSE Gs, shooterId)
        ELSE noteShot(Gf, shooterId)

\* _processFire with a Sniper that shoots on every release.
processFireReleaseFires(G, shooterId, targetId, in) ==
    LET shooter == G.players[shooterId]
        w == G.weapons[shooterId]
        pressed == in.intent \in {"press", "click"}
        down == in.intent \in {"press", "hold"}
        released == in.intent \in {"release", "click"}
    IN  IF shooter.dead \/ shooter.controlsLocked THEN G
        ELSE IF w.type = SNIPER
        THEN LET Ga == IF pressed THEN [G EXCEPT !.weapons[shooterId].sniperAiming = TRUE] ELSE G
             IN  IF released
                 THEN shootHitscan([Ga EXCEPT !.weapons[shooterId].sniperAiming = FALSE],
                                   shooterId, targetId, in.ray)
                 ELSE Ga
        ELSE IF w.type = VANDAL
        THEN IF down THEN shootHitscan(G, shooterId, targetId, in.ray) ELSE G
        ELSE IF w.type = LASER
        THEN IF pressed THEN shootLaser(G, shooterId, targetId, in.ray) ELSE G
        ELSE IF w.type = SHOTGUN
        THEN IF pressed THEN shootShotgun(G, shooterId, targetId, in.ray) ELSE G
        ELSE IF ~pressed THEN G
        ELSE IF w.type = KNIFE THEN knifeAttack(G, shooterId, targetId, in.ray)
        ELSE IF w.type = BOTTLE THEN bottleAttack(G, shooterId, targetId, in.ray)
        ELSE shootHitscan(G, shooterId, targetId, in.ray)

\* _processFire with a Pistol and a Knife that shoot while the trigger is down.
processFireWhileDown(G, shooterId, targetId, in) ==
    LET shooter == G.players[shooterId]
        w == G.weapons[shooterId]
        pressed == in.intent \in {"press", "click"}
        down == in.intent \in {"press", "hold"}
        released == in.intent \in {"release", "click"}
    IN  IF shooter.dead \/ shooter.controlsLocked THEN G
        ELSE IF w.type = SNIPER
        THEN LET Ga == IF pressed THEN [G EXCEPT !.weapons[shooterId].sniperAiming = TRUE] ELSE G
             IN  IF released /\ Ga.weapons[shooterId].sniperAiming
                 THEN shootHitscan([Ga EXCEPT !.weapons[shooterId].sniperAiming = FALSE],
                                   shooterId, targetId, in.ray)
                 ELSE Ga
        ELSE IF w.type = VANDAL
        THEN IF down THEN shootHitscan(G, shooterId, targetId, in.ray) ELSE G
        ELSE IF w.type = LASER
        THEN IF pressed THEN shootLaser(G, shooterId, targetId, in.ray) ELSE G
        ELSE IF w.type = SHOTGUN
        THEN IF pressed THEN shootShotgun(G, shooterId, targetId, in.ray) ELSE G
        ELSE IF ~down THEN G
        ELSE IF w.type = KNIFE THEN knifeAttack(G, shooterId, targetId, in.ray)
        ELSE IF w.type = BOTTLE THEN bottleAttack(G, shooterId, targetId, in.ray)
        ELSE shootHitscan(G, shooterId, targetId, in.ray)

\* _processFire: intent "press" is the trigger pressed in this frame, "hold"
\* the trigger held down, "release" the trigger released, "click" the trigger
\* pressed and released within the frame.
processFire(G, shooterId, targetId, in) ==
    LET shooter == G.players[shooterId]
        w == G.weapons[shooterId]
        pressed == in.intent \in {"press", "click"}
        down == in.intent \in {"press", "hold"}
        released == in.intent \in {"release", "click"}
    IN  IF shooter.dead \/ shooter.controlsLocked THEN G
        ELSE IF w.type = SNIPER
        THEN LET Ga == IF pressed THEN [G EXCEPT !.weapons[shooterId].sniperAiming = TRUE] ELSE G
             IN  IF released /\ Ga.weapons[shooterId].sniperAiming
                 THEN shootHitscan([Ga EXCEPT !.weapons[shooterId].sniperAiming = FALSE],
                                   shooterId, targetId, in.ray)
                 ELSE Ga
        ELSE IF w.type = VANDAL
        THEN IF down THEN shootHitscan(G, shooterId, targetId, in.ray) ELSE G
        ELSE IF w.type = LASER
        THEN IF pressed THEN shootLaser(G, shooterId, targetId, in.ray) ELSE G
        ELSE IF w.type = SHOTGUN
        THEN IF pressed THEN shootShotgun(G, shooterId, targetId, in.ray) ELSE G
        ELSE IF ~pressed THEN G
        ELSE IF w.type = KNIFE THEN knifeAttack(G, shooterId, targetId, in.ray)
        ELSE IF w.type = BOTTLE THEN bottleAttack(G, shooterId, targetId, in.ray)
        ELSE shootHitscan(G, shooterId, targetId, in.ray)

handleFiring(G, in) ==
    processFire(processFire(G, "p1", "p2", in["p1"]), "p2", "p1", in["p2"])

(***************************************************************************)
(* Tasks, gifts, bottles. near is what _nearestGift / _nearestBottle /     *)
(* _nearestArcade answered for the player: [kind |-> "none" | "gift" |     *)
(* "bottle" | "arcade", id |-> bottle id or the arcade's taskIndex].       *)
(***************************************************************************)
MAX_TASK_LEVEL == 3

grantBonusWeapon(G, playerId, type) ==
    [G EXCEPT !.app.bonusWeapon[playerId] = type,
              !.weapons[playerId] = setWeapon(@, type)]

\* roll: Math.random() < 0.5
tryOpenGift(G, playerId, roll) ==
    LET pl == G.players[playerId]
    IN  IF pl.dead \/ pl.controlsLocked THEN G
        ELSE IF G.world.gifts = 0 THEN G
        ELSE grantBonusWeapon([G EXCEPT !.world.gifts = @ - 1], playerId,
                              IF roll THEN LASER ELSE SHOTGUN)

tryPickBottle(G, playerId, bottleId) ==
    LET pl == G.players[playerId]
    IN  IF pl.dead THEN G
        ELSE IF pl.controlsLocked THEN G
        ELSE IF G.weapons[playerId].type = BOTTLE THEN G
        ELSE IF bottleId \in G.world.picked THEN G
        ELSE [G EXCEPT !.world.picked = @ \cup {bottleId},
                       !.players[playerId].hasBottle = TRUE,
                       !.players[playerId].bottlePrevWeapon = G.weapons[playerId].type,
                       !.weapons[playerId] = setWeapon(@, BOTTLE),
                       !.step.held[playerId] = G.weapons[playerId].type]

\* _tryOpenTask without the check of the dead flag.
tryOpenTaskIgnoresDead(G, playerId, taskIndex) ==
    LET pl == G.players[playerId]
    IN  IF taskIndex # pl.taskLevel THEN G
        ELSE [G EXCEPT !.players[playerId].controlsLocked = TRUE,
                       !.tasks[playerId] = taskIndex,
                       !.step.opened = @ \cup {playerId}]

tryOpenTask(G, playerId, taskIndex) ==
    LET pl == G.players[playerId]
    IN  IF pl.dead THEN G
        ELSE IF taskIndex # pl.taskLevel THEN G
        ELSE [G EXCEPT !.players[playerId].controlsLocked = TRUE,
                       !.tasks[playerId] = taskIndex,
                       !.step.opened = @ \cup {playerId}]

\* _onTaskComplete without the comparison of the task index with the level.
onTaskCompleteAnyIndex(G, playerId, taskIndex) ==
    LET pl == G.players[playerId]
        level == clamp(pl.taskLevel + 1, 0, MAX_TASK_LEVEL)
    IN  [G EXCEPT !.players[playerId].taskLevel = level,
                  !.weapons[playerId] = setWeapon(@, weaponForTaskLevel(level))]

\* _onTaskComplete that raises the level and leaves the weapon as it is.
onTaskCompleteKeepsWeapon(G, playerId, taskIndex) ==
    LET pl == G.players[playerId]
        level == clamp(pl.taskLevel + 1, 0, MAX_TASK_LEVEL)
    IN  IF taskIndex # pl.taskLevel THEN G
        ELSE [G EXCEPT !.players[playerId].taskLevel = level]

onTaskComplete(G, playerId, taskIndex) ==
    LET pl == G.players[playerId]
        level == clamp(pl.taskLevel + 1, 0, MAX_TASK_LEVEL)
    IN  IF taskIndex # pl.taskLevel THEN G
        ELSE [G EXCEPT !.players[playerId].taskLevel = level,
                       !.weapons[playerId] = setWeapon(@, weaponForTaskLevel(level))]

\* TaskSystem._complete(playerId): onComplete, then close.
taskComplete(G, playerId) ==
    LET G1 == [G EXCEPT !.step.completed = @ \cup {playerId}]
    IN  taskClose(onTaskComplete(G1, playerId, G.tasks[playerId]), playerId)

\* The use key of one player; stop = the handler returned from _handleTaskToggles.
useKey(G, playerId, in) ==
    IF in.intent # "use" THEN G
    ELSE IF in.near.kind = "gift" THEN tryOpenGift(G, playerId, in.roll)
    ELSE IF in.near.kind = "bottle" THEN tryPickBottle(G, playerId, in.near.id)
    ELSE IF G.tasks[playerId] # NoTask THEN taskClose(G, playerId)
    ELSE IF in.near.kind = "arcade" THEN tryOpenTask(G, playerId, in.near.id)
    ELSE G

useKeyReturns(in) == in.intent = "use" /\ in.near.kind \in {"gift", "bottle"}

\* near1 / near2 are looked up first; the step notes next to which arcade a
\* player pressed its use key.
handleTaskToggles(G, in) ==
    LET arcade(id) == IF in[id].intent = "use" /\ in[id].near.kind = "arcade"
                      THEN in[id].near.id ELSE NoTask
        G0 == [G EXCEPT !.step.asked = [id \in P |-> arcade(id)],
                        !.step.used = [id \in P |-> IF in[id].intent = "use"
                                                    THEN in[id].near.kind ELSE "idle"]]
        G1 == useKey(G0, "p1", in["p1"])
    IN  IF useKeyReturns(in["p1"]) THEN G1 ELSE useKey(G1, "p2", in["p2"])

(***************************************************************************)
(* _updatePlayers(dt)                                                      *)
(***************************************************************************)
reduceTimers(pl, dt) ==
    [pl EXCEPT !.invulnTimer = IF pl.invulnTimer > 0 THEN Max(0, pl.invulnTimer - dt) ELSE @,
               !.deathTimer = IF pl.dead THEN Max(0, pl.deathTimer - dt) ELSE @]

\* _maybeRespawn that does not wait for the death timer.
maybeRespawnEarly(G, deadId) ==
    LET pl == G.players[deadId]
        bonus == G.app.bonusWeapon[deadId]
    IN  IF ~pl.dead THEN G
        ELSE [G EXCEPT !.players[deadId] = setYawPitch(respawnAt(pl, "arena"), "any", 0),
                       !.weapons[deadId] =
                           setWeapon(@, IF bonus # NoWeapon THEN bonus
                                        ELSE weaponForTaskLevel(pl.taskLevel)),
                       !.step.respawned = @ \cup {deadId}]

\* _maybeRespawn that forgets the bonus weapon.
maybeRespawnLevelWeapon(G, deadId) ==
    LET pl == G.players[deadId]
    IN  IF ~pl.dead THEN G
        ELSE IF pl.deathTimer > 0 THEN G
        ELSE [G EXCEPT !.players[deadId] = setYawPitch(respawnAt(pl, "arena"), "any", 0),
                       !.weapons[deadId] = setWeapon(@, weaponForTaskLevel(pl.taskLevel)),
                       !.step.respawned = @ \cup {deadId}]

maybeRespawn(G, deadId) ==
    LET pl == G.players[deadId]
        bonus == G.app.bonusWeapon[deadId]
    IN  IF ~pl.dead THEN G
        ELSE IF pl.deathTimer > 0 THEN G
        ELSE [G EXCEPT !.players[deadId] = setYawPitch(respawnAt(pl, "arena"), "any", 0),
                       !.weapons[deadId] =
                           setWeapon(@, IF bonus # NoWeapon THEN bonus
                                        ELSE weaponForTaskLevel(pl.taskLevel)),
                       !.step.respawned = @ \cup {deadId}]

\* _updateLookP1: the look keys turn a living player; tilt is +1 with KeyT
\* down, -1 with KeyG down, 0 with both or neither. _updateLookP2: pointer
\* motion turns a living player while the pointer is locked to the canvas
\* (intent "look" of p2 is pointer motion with the pointer locked); tilt is
\* mouse.dy in pixels.
updateLookP1(G, in, dt) ==
    IF G.players["p1"].dead THEN G
    ELSE IF in["p1"].intent = "look"
    THEN [G EXCEPT !.players["p1"].yaw = "any",
                   !.players["p1"].pitch =
                       clamp(@ + in["p1"].tilt * PITCH_SPEED * dt, -PITCH_MAX, PITCH_MAX)]
    ELSE G

\* _updateLookP2 without the clamp of the pitch.
updateLookP2NoClamp(G, in) ==
    IF G.players["p2"].dead THEN G
    ELSE IF in["p2"].intent = "look"
    THEN [G EXCEPT !.players["p2"].yaw = "any",
                   !.players["p2"].pitch = @ - in["p2"].tilt * PITCH_SENS]
    ELSE G

updateLookP2(G, in) ==
    IF G.players["p2"].dead THEN G
    ELSE IF in["p2"].intent = "look"
    THEN [G EXCEPT !.players["p2"].yaw = "any",
                   !.players["p2"].pitch =
                       clamp(@ - in["p2"].tilt * PITCH_SENS, -PITCH_MAX, PITCH_MAX)]
    ELSE G

\* _updateMovement, as far as the model follows positions: walking leaves
\* the anchor, crosses the cabin door once its collider is disabled, and
\* leaves the menu spot.
NextPlace(G, playerId) ==
    LET pos == G.players[playerId].pos
    IN  IF pos = "anchor" THEN "cabin"
        ELSE IF pos = "cabin" THEN (IF G.world.doorDisabled[playerId] THEN "arena" ELSE "cabin")
        ELSE "arena"

\* _updateMovement without the check of the controls-locked flag.
updateMovementIgnoresLock(G, playerId, in) ==
    LET pl == G.players[playerId]
    IN  IF pl.dead THEN G
        ELSE IF in.intent # "walk" THEN G
        ELSE [G EXCEPT !.players[playerId].pos = NextPlace(G, playerId),
                       !.players[playerId].vel = 1]

updateMovement(G, playerId, in) ==
    LET pl == G.players[playerId]
    IN  IF pl.dead \/ pl.controlsLocked THEN G
        ELSE IF in.intent # "walk" THEN G
        ELSE [G EXCEPT !.players[playerId].pos = NextPlace(G, playerId),
                       !.players[playerId].vel = 1]

\* Hazard damage that credits the kill to the opponent.
hazardDamageCredits(G, playerId, dt) ==
    LET pl == G.players[playerId]
        Gd == [G EXCEPT !.players[playerId] = takeDamage(pl, FIRE_DPS * dt),
                        !.step.hazard = @ \cup {playerId},
                        !.step.killedBy[playerId] =
                            IF takeDamageKills(pl, FIRE_DPS * dt) THEN "hazard" ELSE @]
    IN  IF takeDamageKills(pl, FIRE_DPS * dt) THEN onKill(Gd, Other(playerId)) ELSE Gd

\* One fire block the player overlaps: takeDamage(dps * dt), result dropped.
hazardDamage(G, playerId, dt) ==
    LET pl == G.players[playerId]
    IN  [G EXCEPT !.players[playerId] = takeDamage(pl, FIRE_DPS * dt),
                  !.step.hazard = @ \cup {playerId},
                  !.step.killedBy[playerId] =
                      IF takeDamageKills(pl, FIRE_DPS * dt) THEN "hazard" ELSE @]

updateHazards(G, dt, in) ==
    LET Gw == [G EXCEPT !.world = IF in.gift THEN giftLands(worldUpdate(@, dt))
                                  ELSE worldUpdate(@, dt)]
        burn(H, id) ==
            IF ~H.players[id].dead /\ in[id].burn /\ Len(H.world.fire) > 0
            THEN hazardDamage(H, id, dt) ELSE H
    IN  burn(burn(Gw, "p1"), "p2")

handleReloads(G, in) ==
    LET reload(H, id) ==
            IF in[id].intent = "reload" /\ ~H.players[id].controlsLocked /\ ~H.players[id].dead
            THEN [H EXCEPT !.weapons[id] = startReload(@)] ELSE H
    IN  reload(reload(G, "p1"), "p2")

updatePlayers(G, dt, in) ==
    LET G1 == [G EXCEPT !.players = [p \in P |-> reduceTimers(G.players[p], dt)]]
        G2 == maybeRespawn(maybeRespawn(G1, "p1"), "p2")
        G3 == [G2 EXCEPT !.weapons = [p \in P |-> weaponUpdate(G2.weapons[p], dt)]]
        Gl == updateLookP2(updateLookP1(G3, in, dt), in)
        G4 == updateMovement(updateMovement(Gl, "p1", in["p1"]), "p2", in["p2"])
        G5 == updateHazards(G4, dt, in)
    IN  handleFiring(handleReloads(G5, in), in)

(***************************************************************************)
(* _update(dt) and _frame(ts)                                              *)
(***************************************************************************)
DOOR_RATE_PERMILLE == 1200

DOOR_OPEN == 1000

closeTasksOfDead(G) ==
    LET closeIf(H, id) ==
            IF H.players[id].dead /\ H.tasks[id] # NoTask THEN taskClose(H, id) ELSE H
    IN  closeIf(closeIf(G, "p1"), "p2")

\* The elevator phase that starts the fight as soon as the door is open.
elevatorPhaseDoorOnly(G, dt) ==
    LET t == Max(0, G.app.elevator.t - dt)
        door == Min(DOOR_OPEN, G.app.elevator.doorOpen01 + (dt * DOOR_RATE_PERMILLE) \div 1000)
        armed == IF G.app.elevator.fightMsgTimer <= 0 THEN FIGHT_MSG_T
                 ELSE G.app.elevator.fightMsgTimer
        fight == Max(0, armed - dt)
    IN  IF G.app.state # "ELEVATOR" THEN G
        ELSE IF ~(t <= 0) THEN [G EXCEPT !.app.elevator.t = t]
        ELSE [G EXCEPT !.app.elevator = [t |-> t, doorOpen01 |-> door, fightMsgTimer |-> fight],
                       !.world = setElevatorDoorOpen(setElevatorDoorOpen(@, "p1", door), "p2", door),
                       !.app.state = IF door >= DOOR_OPEN THEN "PLAY" ELSE @]

elevatorPhase(G, dt) ==
    LET t == Max(0, G.app.elevator.t - dt)
        door == Min(DOOR_OPEN, G.app.elevator.doorOpen01 + (dt * DOOR_RATE_PERMILLE) \div 1000)
        armed == IF G.app.elevator.fightMsgTimer <= 0 THEN FIGHT_MSG_T
                 ELSE G.app.elevator.fightMsgTimer
        fight == Max(0, armed - dt)
    IN  IF G.app.state # "ELEVATOR" THEN G
        ELSE IF ~(t <= 0) THEN [G EXCEPT !.app.elevator.t = t]
        ELSE [G EXCEPT !.app.elevator = [t |-> t, doorOpen01 |-> door, fightMsgTimer |-> fight],
                       !.world = setElevatorDoorOpen(setElevatorDoorOpen(@, "p1", door), "p2", door),
                       !.app.state = IF door >= DOOR_OPEN /\ fight <= 0 THEN "PLAY" ELSE @]

SNAKE_TASK == 2

\* TaskSystem.update(dt): a snake game may be won in this frame.
taskSystemUpdate(G, in) ==
    LET snake(H, id) ==
            IF H.tasks[id] >= SNAKE_TASK /\ in[id].intent = "snake" THEN taskComplete(H, id) ELSE H
    IN  snake(snake(G, "p1"), "p2")

\* The gameplay updates that also run on the win screen.
InGameAlsoWin(G) == G.app.state \in {"ELEVATOR", "PLAY", "WIN"}

InGame(G) == G.app.state \in {"ELEVATOR", "PLAY"}

update(G, dt, in) ==
    LET G1 == IF InGame(G) THEN handleTaskToggles(G, in) ELSE G
        G2 == elevatorPhase(closeTasksOfDead(G1), dt)
    IN  IF InGame(G2) THEN taskSystemUpdate(updatePlayers(G2, dt, in), in) ELSE G2

frame(G, in) ==
    LET dt == IF G.app.lastTs THEN DT ELSE 0
        stuck(p) == G.players[p].dead \/ G.players[p].controlsLocked
        G0 == [G EXCEPT !.step.intent = [p \in P |-> IF stuck(p) THEN in[p].intent ELSE "idle"]]
    IN  [update(G0, dt, in) EXCEPT !.app.lastTs = TRUE]

(***************************************************************************)
(* The environment: which keys the two players use in a run, and how many  *)
(* click handlers they leave suspended. The environments cover the menu,   *)
(* a knife duel won by either player, the fire hazards, and the weapons    *)
(* earned from tasks, bottles and gifts. In a limited environment a player *)
(* pulls the trigger at most MaxShots times, and not again after a shot of *)
(* the beam weapon; in a hurried one it walks on                           *)
(* whenever the way is free; in a late one the barrels are left alone      *)
(* until the last kill of the match is due;                                *)
(* in a stubborn one the player of env.use keeps pressing its keys while   *)
(* it is dead or its controls are locked; the players of env.look turn     *)
(* around (p2 only while no task is open, since opening a task exits the   *)
(* pointer lock and the canvas does not take it back while a task is open);*)
(* near "arcades" is any arcade, "arcade" the arcade of the player's next  *)
(* task, "arcade0" the arcade of the first task, visited only while a fire *)
(* burns;                                                                  *)
(* only in an early one the keys are used before                           *)
(* the fight; a player of env.burn stands in the fire whenever there is    *)
(* one.                                                                    *)
(* The players put the keys down once env.kills kills are scored, and a    *)
(* player of a limited environment after its last shot.                    *)
(***************************************************************************)
Envs ==
    { [name |-> "menu", fire |-> {}, use |-> {}, near |-> {}, burn |-> {}, barrels |-> FALSE,
       late |-> FALSE, early |-> TRUE, hurry |-> FALSE, limited |-> FALSE,
       starts |-> MaxPending, saves |-> 1, kills |-> 0,
       stubborn |-> FALSE, look |-> {}, bag |-> TRUE],
      [name |-> "knife1", fire |-> {"p1"}, use |-> {}, near |-> {}, burn |-> {}, barrels |-> FALSE,
       late |-> FALSE, early |-> FALSE, hurry |-> TRUE, limited |-> FALSE,
       starts |-> 1, saves |-> MaxPending, kills |-> WIN_KILLS,
       stubborn |-> FALSE, look |-> {}, bag |-> FALSE],
      [name |-> "rematch", fire |-> {"p1"}, use |-> {}, near |-> {}, burn |-> {"p2"}, barrels |-> TRUE,
       late |-> TRUE, early |-> FALSE, hurry |-> TRUE, limited |-> FALSE,
       starts |-> 1, saves |-> 1, kills |-> WIN_KILLS,
       stubborn |-> FALSE, look |-> {}, bag |-> FALSE],
      [name |-> "knife2", fire |-> {"p2"}, use |-> {}, near |-> {}, burn |-> {},
       barrels |-> FALSE, late |-> FALSE, early |-> FALSE, hurry |-> TRUE, limited |-> FALSE,
       starts |-> 1, saves |-> 1, kills |-> WIN_KILLS,
       stubborn |-> FALSE, look |-> {}, bag |-> FALSE],
      [name |-> "hazard", fire |-> {"p1"}, use |-> {"p2"}, near |-> {"arcade0"}, burn |-> {"p2"},
       barrels |-> TRUE,
       late |-> FALSE, early |-> FALSE, hurry |-> TRUE, limited |-> TRUE,
       starts |-> 1, saves |-> 1, kills |-> MaxArsenalKills,
       stubborn |-> FALSE, look |-> {}, bag |-> FALSE],
      [name |-> "tasks", fire |-> {"p1"}, use |-> {"p1"}, near |-> {"arcade", "bottle"}, burn |-> {},
       barrels |-> FALSE, late |-> FALSE, early |-> TRUE, hurry |-> TRUE, limited |-> TRUE,
       starts |-> 1, saves |-> 1, kills |-> MaxArsenalKills,
       stubborn |-> FALSE, look |-> {}, bag |-> FALSE],
      [name |-> "gifts", fire |-> {"p2"}, use |-> {"p2"}, near |-> {"gift"}, burn |-> {},
       barrels |-> FALSE, late |-> FALSE, early |-> FALSE, hurry |-> TRUE, limited |-> TRUE,
       starts |-> 1, saves |-> 1, kills |-> MaxArsenalKills,
       stubborn |-> FALSE, look |-> {}, bag |-> FALSE],
      [name |-> "pair", fire |-> {}, use |-> {"p1", "p2"}, near |-> {"arcades", "bottle"}, burn |-> {},
       barrels |-> FALSE, late |-> FALSE, early |-> FALSE, hurry |-> TRUE, limited |-> TRUE,
       starts |-> 1, saves |-> 1, kills |-> MaxArsenalKills,
       stubborn |-> FALSE, look |-> {"p2"}, bag |-> FALSE],
      [name |-> "locked", fire |-> {"p2"}, use |-> {"p1"}, near |-> {"arcade"}, burn |-> {},
       barrels |-> FALSE, late |-> FALSE, early |-> FALSE, hurry |-> TRUE, limited |-> FALSE,
       starts |-> 1, saves |-> 1, kills |-> MaxArsenalKills + 1,
       stubborn |-> TRUE, look |-> {"p1"}, bag |-> FALSE] }

NoRay == [kind |-> "miss", id |-> 0, close |-> FALSE]

NoNear == [kind |-> "none", id |-> 0]

Idle ==
    [intent |-> "idle", ray |-> NoRay, near |-> NoNear, roll |-> FALSE, burn |-> FALSE,
     tilt |-> 0]

\* What a ray of shooter p can answer in G.
Rays(G, p) ==
    LET bothOut == G.players[p].pos \in {"arena", "menu"}
                   /\ G.players[Other(p)].pos \in {"arena", "menu"}
        canHit == bothOut /\ ~G.players[Other(p)].dead
    IN  {NoRay}
        \cup (IF canHit
              THEN {[kind |-> "target", id |-> 0, close |-> c] :
                        c \in (IF G.weapons[p].type = SHOTGUN THEN BOOLEAN ELSE {FALSE})}
              ELSE {})
        \cup (IF env.barrels /\ G.players[p].pos = "arena"
                 /\ (env.late => /\ G.app.scores["p1"] + G.app.scores["p2"] >= WIN_KILLS - 1
                                 /\ G.players[Other(p)].invulnTimer = 0)
              THEN {[kind |-> "barrel", id |-> i, close |-> FALSE] : i \in 1..NBarrels}
              ELSE {})

\* What is near player p in G. A player with a task open stands where it
\* opened the task, and no bottle was in reach there: its use key would have
\* picked the bottle up, or been refused, before it reached the arcade.
Nears(G, p) ==
    IF G.players[p].pos # "arena" THEN {}
    ELSE (IF "arcades" \in env.near
          THEN {[kind |-> "arcade", id |-> k] : k \in 0..SNAKE_TASK} ELSE {})
         \cup (IF "arcade" \in env.near
               THEN {[kind |-> "arcade", id |-> k] : k \in {G.players[p].taskLevel} \cap 0..SNAKE_TASK}
               ELSE {})
         \cup (IF "arcade0" \in env.near /\ Len(G.world.fire) > 0
               THEN {[kind |-> "arcade", id |-> 0]} ELSE {})
         \cup (IF "bottle" \in env.near /\ G.tasks[p] = NoTask
               THEN {[kind |-> "bottle", id |-> b] : b \in (1..NBottles) \ G.world.picked}
               ELSE {})
         \cup (IF "gift" \in env.near /\ G.world.gifts > 0
               THEN {[kind |-> "gift", id |-> 0]} ELSE {})

TriggerIntents(w) ==
    IF w.type = SNIPER THEN (IF w.sniperAiming THEN {"release"} ELSE {"press"})
    ELSE IF w.type = VANDAL THEN {"hold"}
    ELSE {"press"}

\* The inputs of player p a frame can see in G.
Inputs(G, p) ==
    LET pl == G.players[p]
        w == G.weapons[p]
        alive == InGame(G) /\ ~pl.dead
        active == alive /\ (env.early \/ G.app.state = "PLAY")
                  /\ G.app.scores["p1"] + G.app.scores["p2"] < env.kills
                  /\ (env.limited => spent[p] < MaxShots)
        burning == active /\ p \in env.burn /\ pl.pos = "arena" /\ Len(G.world.fire) > 0
        Base == [Idle EXCEPT !.burn = burning]
        loaded == IsMelee(w.type) \/ w.mag > 0 \/ startReloadOk(w)
        canFire == active /\ p \in env.fire /\ ~pl.controlsLocked /\ w.cooldown = 0
                   /\ w.reloadTimer = 0 /\ loaded
        \* In a late environment the shooter finishes the match as soon as a
        \* barrel burns: it strikes at the opponent whenever it can.
        urgent == env.late /\ canFire /\ Len(G.world.fire) > 0
                  /\ \E r \in Rays(G, p) : r.kind = "target"
        canWalk == alive /\ ~pl.controlsLocked /\ (pl.pos # "arena" \/ pl.vel = 0)
        hurries == canWalk /\ env.hurry /\ NextPlace(G, p) # pl.pos
        going == G.app.scores["p1"] + G.app.scores["p2"] < env.kills
        stuck == env.stubborn /\ p \in env.use /\ InGame(G) /\ going
                 /\ (pl.dead \/ pl.controlsLocked)
        turns == p \in env.look /\ alive /\ going /\ ~pl.controlsLocked /\ pl.yaw # "any"
                 /\ (p = "p2" => \A q \in P : G.tasks[q] = NoTask)
    IN  (IF hurries \/ urgent THEN {} ELSE {Base})
        \cup (IF stuck
              THEN {[Base EXCEPT !.intent = i] : i \in {"walk", "reload", "look", "press"}}
                   \cup {[Base EXCEPT !.intent = "use", !.near = n] : n \in Nears(G, p)}
              ELSE {})
        \cup (IF turns THEN {[Base EXCEPT !.intent = "look"]} ELSE {})
        \cup (IF canWalk /\ ~urgent THEN {[Base EXCEPT !.intent = "walk"]} ELSE {})
        \cup (IF canFire
              THEN {[Base EXCEPT !.intent = i, !.ray = r] :
                        i \in TriggerIntents(w),
                        r \in {x \in Rays(G, p) : urgent => x.kind = "target"}}
              ELSE {})
        \cup (IF active /\ p \in env.fire /\ ~pl.controlsLocked /\ startReloadOk(w)
              THEN {[Base EXCEPT !.intent = "reload"]} ELSE {})
        \cup (IF active /\ p \in env.use
              THEN {[Base EXCEPT !.intent = "use", !.near = n, !.roll = r] :
                        n \in Nears(G, p), r \in (IF G.world.gifts > 0 THEN BOOLEAN ELSE {FALSE})}
                   \cup (IF G.tasks[p] # NoTask
                         THEN {[Base EXCEPT !.intent = "use",
                                            !.near = [kind |-> "arcade", id |-> G.tasks[p]]]}
                         ELSE {})
                   \cup (IF G.tasks[p] >= SNAKE_TASK THEN {[Base EXCEPT !.intent = "snake"]} ELSE {})
              ELSE {})

(***************************************************************************)
(* State, initial state and steps.                                         *)
(***************************************************************************)
FADE_MS == 700

Game == [app |-> app, players |-> players, weapons |-> weapons, world |-> world,
         tasks |-> tasks, ui |-> ui, step |-> step]

\* The game G is the next state; op names the step.
Becomes(G, op) ==
    /\ app' = G.app
    /\ players' = G.players
    /\ weapons' = G.weapons
    /\ world' = G.world
    /\ tasks' = G.tasks
    /\ ui' = G.ui
    /\ step' = [G.step EXCEPT !.op = op, !.from = app.state]

Fresh == [Game EXCEPT !.step = NoStep]

\* After the constructor and start(): _resetRound(), _applyMenuMode(true).
Init ==
    /\ env \in Envs
    /\ app = App0
    /\ players = applyMenuMode(resetRound(Game0), TRUE).players
    /\ weapons = applyMenuMode(resetRound(Game0), TRUE).weapons
    /\ world = World0
    /\ tasks = [p \in P |-> NoTask]
    /\ ui = [menuMode |-> TRUE, winShown |-> FALSE, invOpen |-> FALSE]
    /\ pending = [start |-> 0, save |-> 0, fade |-> <<>>]
    /\ spent = [p \in P |-> 0]
    /\ body = NoBody
    /\ step = NoStep

\* A click on the start button: the listener runs up to its first await.
StartClick ==
    /\ ui.menuMode
    /\ pending.start < env.starts
    /\ Len(pending.fade) < MaxPending
    /\ pending' = [pending EXCEPT !.start = @ + 1]
    /\ Becomes(Fresh, "startClick")
    /\ UNCHANGED <<env, spent, body>>

\* The start listener resumes after its awaits: _startTransitionToGame().
startTransitionToGame(G) ==
    IF G.app.state # "MENU" THEN G
    ELSE [applyMenuMode(G, FALSE) EXCEPT !.app.state = "TRANSITION"]

StartHandler ==
    /\ pending.start > 0
    /\ pending' = [pending EXCEPT !.start = @ - 1,
                                  !.fade = IF app.state = "MENU" THEN Append(@, 0) ELSE @]
    /\ Becomes(startTransitionToGame(Fresh), "startHandler")
    /\ UNCHANGED <<env, spent, body>>

\* The fade timeout fires: _beginElevatorPhase().
FadeTimeout ==
    /\ Len(pending.fade) > 0
    /\ pending' = [pending EXCEPT !.fade = Tail(@)]
    /\ Becomes(beginElevatorPhase(Fresh), "fadeTimeout")
    /\ UNCHANGED <<env, spent, body>>

\* A click on the save button of the win screen.
SaveClick ==
    /\ ui.winShown
    /\ pending.save < env.saves
    /\ pending' = [pending EXCEPT !.save = @ + 1]
    /\ Becomes(Fresh, "saveClick")
    /\ UNCHANGED <<env, spent, body>>

\* The save listener resumes after its awaits: _toMenu().
SaveHandler ==
    /\ pending.save > 0
    /\ pending' = [pending EXCEPT !.save = @ - 1]
    /\ Becomes(toMenu(Fresh), "toMenu")
    /\ UNCHANGED <<env, spent, body>>

\* A click on the bag of the menu: openInventory().
InventoryOpen ==
    /\ env.bag
    /\ ui.menuMode
    /\ ~ui.invOpen
    /\ Becomes(openInventory(Fresh), "openInventory")
    /\ UNCHANGED <<pending, env, spent, body>>

\* A click on the close button of the inventory overlay, or beside its
\* panel: closeInventory().
InventoryClose ==
    /\ env.bag
    /\ ui.invOpen
    /\ Becomes(closeInventory(Fresh), "closeInventory")
    /\ UNCHANGED <<pending, env, spent, body>>

\* An animation frame. A frame adds at most its dt to the time a fade timeout
\* has waited; a timeout that is due fires before the next frame.
Frame ==
    /\ \A i \in 1..Len(pending.fade) : pending.fade[i] < FADE_MS
    /\ \E i1 \in Inputs(Game, "p1"), i2 \in Inputs(Game, "p2"),
          gift \in (IF "gift" \in env.near /\ app.state = "PLAY" /\ world.gifts = 0
                       /\ \E p \in env.use : spent[p] < MaxShots
                    THEN BOOLEAN ELSE {FALSE}) :
          Becomes(frame(Fresh, [p1 |-> i1, p2 |-> i2, gift |-> gift]), "frame")
    /\ spent' = [p \in P |->
                     IF ~(env.limited /\ p \in step'.fired) THEN spent[p]
                     ELSE IF weapons[p].type = LASER THEN MaxShots
                     ELSE spent[p] + 1]
    /\ pending' = [pending EXCEPT !.fade =
                       [i \in 1..Len(@) |-> Min(FADE_MS, @[i] + (IF app.lastTs THEN DT ELSE 0))]]
    /\ UNCHANGED <<env, body>>

\* The open tic-tac-toe or multiplication task of p is solved by a click.
TaskSolved(p) ==
    /\ tasks[p] # NoTask
    /\ tasks[p] < SNAKE_TASK
    /\ Becomes(taskComplete(Fresh, p), "taskSolved")
    /\ UNCHANGED <<pending, env, spent, body>>

\* The exit button of the open task of p.
TaskExit(p) ==
    /\ tasks[p] # NoTask
    /\ Becomes(taskClose(Fresh, p), "taskExit")
    /\ UNCHANGED <<pending, env, spent, body>>

Next ==
    \/ StartClick
    \/ StartHandler
    \/ FadeTimeout
    \/ SaveClick
    \/ SaveHandler
    \/ Frame
    \/ \E p \in P : TaskSolved(p)
    \/ \E p \in P : TaskExit(p)
    \/ InventoryOpen
    \/ InventoryClose

Spec == Init /\ [][Next]_vars

\* The game under fair scheduling: _frame asks for the next animation frame
\* at its end, and a timeout that was set fires.
LiveEnvs == {e \in Envs : e.name \in {"menu", "knife1", "knife2", "pair"}}

InitLive == Init /\ env \in LiveEnvs

\* A frame of the elevator ride.
ElevatorFrame == app.state = "ELEVATOR" /\ Frame

\* The guard of ElevatorFrame: the ride is on and no fade timeout is due.
\* Every frame of the ride changes one of its timers, so this is ENABLED
\* <<ElevatorFrame>>_vars.
ElevatorFrameReady ==
    /\ app.state = "ELEVATOR"
    /\ \A i \in 1..Len(pending.fade) : pending.fade[i] < FADE_MS

\* Weak fairness of ElevatorFrame, with its guard written out.
FairFrames == ([]<>~ElevatorFrameReady) \/ ([]<><<ElevatorFrame>>_vars)

\* The frames of the ride keep coming, a timeout that was set fires, and
\* the awaits of the start and save listeners return.
SpecLive ==
    /\ InitLive
    /\ [][Next]_vars
    /\ FairFrames
    /\ WF_vars(FadeTimeout)
    /\ WF_vars(StartHandler)
    /\ WF_vars(SaveHandler)

(***************************************************************************)
(* Player.takeDamage and Player.respawnAt called directly, on every kind   *)
(* of player state: alive with any health, invulnerable, dead.             *)
(***************************************************************************)
\* Health of a living player, death timers, invulnerability timers, damage
\* amounts (thousandths of a hit point, ms) the direct calls are tried on.
HpSamples == {1250, 10000, 40000, 70000, MAX_HP * 1000}

DeathTimerSamples == {0, DT, DEATH_TIMER}

InvulnSamples == {0, DT, INVULN_DURATION}

Amounts == {0, 10000, 30000, 100000, 150000}

\* A player is alive with positive health or dead with none; a dead player
\* is not invulnerable, a living one has no death timer left.
PlayerStates ==
    {[Player0 EXCEPT !.hp = h, !.invulnTimer = i] : h \in HpSamples, i \in InvulnSamples}
    \cup {[Player0 EXCEPT !.hp = 0, !.dead = TRUE, !.deathTimer = d] : d \in DeathTimerSamples}

InitPlayer ==
    /\ env \in {e \in Envs : e.name = "menu"}
    /\ app = App0
    /\ players \in [P -> PlayerStates]
    /\ weapons = [p \in P |-> WeaponState0]
    /\ world = World0
    /\ tasks = [p \in P |-> NoTask]
    /\ ui = [menuMode |-> TRUE, winShown |-> FALSE, invOpen |-> FALSE]
    /\ pending = [start |-> 0, save |-> 0, fade |-> <<>>]
    /\ spent = [p \in P |-> 0]
    /\ body = NoBody
    /\ step = NoStep

CallTakeDamage(p, amount) ==
    /\ players' = [players EXCEPT ![p] = takeDamage(@, amount)]
    /\ step' = [NoStep EXCEPT !.op = "takeDamage", !.who = p, !.amount = amount,
                              !.ret = takeDamageKills(players[p], amount)]
    /\ UNCHANGED <<app, weapons, world, tasks, ui, pending, env, spent, body>>

CallRespawnAt(p) ==
    /\ players' = [players EXCEPT ![p] = respawnAt(@, "arena")]
    /\ step' = [NoStep EXCEPT !.op = "respawnAt", !.who = p]
    /\ UNCHANGED <<app, weapons, world, tasks, ui, pending, env, spent, body>>

NextPlayer ==
    \/ \E p \in P, amount \in Amounts : CallTakeDamage(p, amount)
    \/ \E p \in P : CallRespawnAt(p)

SpecPlayer == InitPlayer /\ [][NextPlayer]_vars


(***************************************************************************)
(* WeaponState.startReload, WeaponState.update and the fire attempt        *)
(* (_processFire) called directly, in PLAY, on every kind of weapon state  *)
(* of the four weapons of the task levels.                                 *)
(***************************************************************************)
\* A weapon holds an empty magazine, one round or a full magazine, and no
\* reserve, one round or its initial reserve; it reloads only with a
\* magazine that is not full and a reserve that is not empty; its timers
\* are zero or one frame from zero.
WeaponStates ==
    {[setWeapon(WeaponState0, KNIFE) EXCEPT !.cooldown = c] : c \in {0, DT}}
    \cup {w \in UNION {{[setWeapon(WeaponState0, t) EXCEPT !.mag = m, !.reserve = r,
                                                         !.cooldown = c, !.reloadTimer = rt] :
                            m \in {0, 1, setWeapon(WeaponState0, t).mag},
                            r \in {0, 1, setWeapon(WeaponState0, t).reserve},
                            c \in {0, DT}, rt \in {0, DT}} :
                        t \in {PISTOL, VANDAL, SNIPER}} :
             w.reloadTimer > 0 => (w.mag < getMaxMag(w) /\ w.reserve > 0)}

InitWeapon ==
    /\ env \in {e \in Envs : e.name = "menu"}
    /\ app = [App0 EXCEPT !.state = "PLAY", !.lastTs = TRUE,
                          !.elevator = [t |-> 0, doorOpen01 |-> DOOR_OPEN, fightMsgTimer |-> 0]]
    /\ players = [p \in P |-> Player0]
    /\ weapons \in [P -> WeaponStates]
    /\ weapons["p2"] = setWeapon(WeaponState0, KNIFE)
    /\ world = [World0 EXCEPT !.doorDisabled = [p \in P |-> TRUE]]
    /\ tasks = [p \in P |-> NoTask]
    /\ ui = [menuMode |-> FALSE, winShown |-> FALSE, invOpen |-> FALSE]
    /\ pending = [start |-> 0, save |-> 0, fade |-> <<>>]
    /\ spent = [p \in P |-> 0]
    /\ body = NoBody
    /\ step = NoStep

\* The reload of a weapon is followed from the step that starts its reload
\* timer (by a call of startReload or by a fire attempt) until the step
\* after its duration has been counted down.
Followed(r, w, w2, ticked, by) ==
    IF w.reloadTimer = 0 /\ w2.reloadTimer > 0
    THEN [on |-> TRUE, by |-> by, mag |-> w.mag, reserve |-> w.reserve, elapsed |-> 0]
    ELSE IF r.on /\ r.elapsed >= ReloadDuration(w.type) THEN NoReload
    ELSE IF r.on /\ ticked THEN [r EXCEPT !.elapsed = @ + DT]
    ELSE r

CallStartReload(p) ==
    /\ weapons' = [weapons EXCEPT ![p] = startReload(@)]
    /\ step' = [NoStep EXCEPT !.op = "startReload", !.from = app.state, !.who = p,
                              !.ret = startReloadOk(weapons[p]),
                              !.reload = [q \in P |->
                                  Followed(step.reload[q], weapons[q], weapons'[q], FALSE, "call")]]
    /\ UNCHANGED <<app, players, world, tasks, ui, pending, env, spent, body>>

\* setWeapon(type) with one of the types of Weapons.js.
CallSetWeapon(p, type) ==
    /\ weapons' = [weapons EXCEPT ![p] = setWeapon(@, type)]
    /\ step' = [NoStep EXCEPT !.op = "setWeapon", !.from = app.state, !.who = p, !.arg = type,
                              !.again = (step.op = "setWeapon" /\ step.who = p
                                            /\ step.arg = type)]
    /\ UNCHANGED <<app, players, world, tasks, ui, pending, env, spent, body>>

\* update(dt) for one frame; the Sniper is held raised for one frame at most.
CallWeaponUpdate(p) ==
    /\ weapons[p].sniperAiming => weapons[p].sniperZoom01 = 0
    /\ weapons' = [weapons EXCEPT ![p] = weaponUpdate(@, DT)]
    /\ step' = [NoStep EXCEPT !.op = "weaponUpdate", !.from = app.state, !.who = p,
                              !.reload = [q \in P |->
                                  Followed(step.reload[q], weapons[q], weapons'[q], q = p, "call")]]
    /\ UNCHANGED <<app, players, world, tasks, ui, pending, env, spent, body>>

\* _processFire(p, opponent, pressed, released, down) with a trigger state
\* and the answer of the ray. At most MaxShots shots are fired, and the
\* Sniper is raised only from rest.
FireAttempt(p, intent, ray) ==
    LET G == processFire(Fresh, p, Other(p), [Idle EXCEPT !.intent = intent, !.ray = ray])
    IN  /\ spent[p] < MaxShots
        /\ (weapons[p].type = SNIPER /\ intent \in {"press", "click"}) =>
               weapons[p].sniperZoom01 = 0
        /\ spent' = [spent EXCEPT ![p] = IF p \in G.step.fired THEN @ + 1 ELSE @]
        /\ app' = G.app
        /\ players' = G.players
        /\ weapons' = G.weapons
        /\ world' = G.world
        /\ tasks' = G.tasks
        /\ ui' = G.ui
        /\ step' = [G.step EXCEPT !.op = "fire", !.from = app.state, !.who = p,
                                  !.intent[p] = intent,
                                  !.reload = [q \in P |->
                                      Followed(step.reload[q], weapons[q], G.weapons[q], FALSE, "fire")]]
        /\ UNCHANGED <<pending, env, body>>

\* The calls are made for the weapon of p1, with p2 as the target.
NextWeapon ==
    \/ \E type \in {KNIFE, PISTOL, VANDAL, SNIPER} : CallSetWeapon("p1", type)
    \/ CallStartReload("p1")
    \/ CallWeaponUpdate("p1")
    \/ \E intent \in {"press", "hold", "release", "click"},
          ray \in {NoRay, [kind |-> "target", id |-> 0, close |-> FALSE]} :
          FireAttempt("p1", intent, ray)

SpecWeapon == InitWeapon /\ [][NextWeapon]_vars

(***************************************************************************)
(* The world as a unit: explodeBarrel and update called on worlds with     *)
(* barrels whole or exploded and with fire blocks burning.                 *)
(***************************************************************************)
\* Fire blocks that burn when the first call is made: none, one in its last
\* frame, and the blocks of earlier laser shots two short of the cap.
FireSamples ==
    {<<>>, <<DT>>, [i \in 1..(MAX_FIRE_BLOCKS - 2) |-> LASER_FIRE_LIFETIME]}

InitWorld ==
    /\ env \in {e \in Envs : e.name = "menu"}
    /\ app = [App0 EXCEPT !.state = "PLAY", !.lastTs = TRUE,
                          !.elevator = [t |-> 0, doorOpen01 |-> DOOR_OPEN, fightMsgTimer |-> 0]]
    /\ players = [p \in P |-> Player0]
    /\ weapons = [p \in P |-> WeaponState0]
    /\ \E ex \in SUBSET (1..NBarrels), f \in FireSamples :
          world = [World0 EXCEPT !.doorDisabled = [p \in P |-> TRUE],
                                 !.exploded = ex, !.barrelOff = ex, !.fire = f]
    /\ tasks = [p \in P |-> NoTask]
    /\ ui = [menuMode |-> FALSE, winShown |-> FALSE, invOpen |-> FALSE]
    /\ pending = [start |-> 0, save |-> 0, fade |-> <<>>]
    /\ spent = [p \in P |-> 0]
    /\ body = NoBody
    /\ step = NoStep

\* explodeBarrel(id); ids 0 and NBarrels + 1 are ids of no barrel.
CallExplodeBarrel(id) ==
    /\ world' = explodeBarrel(world, id)
    /\ step' = [NoStep EXCEPT !.op = "explodeBarrel", !.from = app.state, !.barrel = id,
                              !.ret = explodeBarrelHits(world, id)]
    /\ UNCHANGED <<app, players, weapons, tasks, ui, pending, env, spent, body>>

\* World.update(dt) for one frame while a fire block burns.
CallWorldUpdate ==
    /\ Len(world.fire) > 0
    /\ world' = worldUpdate(world, DT)
    /\ step' = [NoStep EXCEPT !.op = "worldUpdate", !.from = app.state]
    /\ UNCHANGED <<app, players, weapons, tasks, ui, pending, env, spent, body>>

NextWorld ==
    \/ \E id \in 0..(NBarrels + 1) : CallExplodeBarrel(id)
    \/ CallWorldUpdate

SpecWorld == InitWorld /\ [][NextWorld]_vars

(***************************************************************************)
(* The look of the players as a unit: _updateLookP1, _updateLookP2,        *)
(* setYawPitch and respawnAt called on players living and dead.            *)
(***************************************************************************)
\* A player looks level or as far up or down as the clamp lets it.
LookStates ==
    {[Player0 EXCEPT !.pitch = a] : a \in {-PITCH_MAX, 0, PITCH_MAX}}
    \cup {[Player0 EXCEPT !.hp = 0, !.dead = TRUE, !.deathTimer = DT]}

InitLook ==
    /\ env \in {e \in Envs : e.name = "menu"}
    /\ app = [App0 EXCEPT !.state = "PLAY", !.lastTs = TRUE,
                          !.elevator = [t |-> 0, doorOpen01 |-> DOOR_OPEN, fightMsgTimer |-> 0]]
    /\ players \in [P -> LookStates]
    /\ weapons = [p \in P |-> WeaponState0]
    /\ world = [World0 EXCEPT !.doorDisabled = [p \in P |-> TRUE]]
    /\ tasks = [p \in P |-> NoTask]
    /\ ui = [menuMode |-> FALSE, winShown |-> FALSE, invOpen |-> FALSE]
    /\ pending = [start |-> 0, save |-> 0, fade |-> <<>>]
    /\ spent = [p \in P |-> 0]
    /\ body = NoBody
    /\ step = NoStep

LookInput(p, tilt) == [q \in P |-> IF q = p THEN [Idle EXCEPT !.intent = "look", !.tilt = tilt]
                                             ELSE Idle]

\* _updateLookP1(dt) with KeyT, KeyG, both or neither held for a frame.
CallUpdateLookP1(tilt) ==
    /\ Becomes([updateLookP1(Fresh, LookInput("p1", tilt), DT) EXCEPT !.step.who = "p1"],
               "updateLook")
    /\ UNCHANGED <<pending, env, spent, body>>

\* _updateLookP2(dt) with the pointer locked and moved by dy pixels.
CallUpdateLookP2(dy) ==
    /\ Becomes([updateLookP2(Fresh, LookInput("p2", dy)) EXCEPT !.step.who = "p2"],
               "updateLook")
    /\ UNCHANGED <<pending, env, spent, body>>

CallSetYawPitch(p, pitch) ==
    /\ players' = [players EXCEPT ![p] = setYawPitch(@, "any", pitch)]
    /\ step' = [NoStep EXCEPT !.op = "setYawPitch", !.from = app.state, !.who = p,
                              !.amount = pitch]
    /\ UNCHANGED <<app, weapons, world, tasks, ui, pending, env, spent, body>>

\* Pointer motion of a frame (pixels) and pitches handed to setYawPitch.
MouseDy == {-7000, -100, 100, 7000}

PitchArgs == {-31416, -13501, 0, 13501, 31416}

NextLook ==
    \/ \E tilt \in {-1, 0, 1} : CallUpdateLookP1(tilt)
    \/ \E dy \in MouseDy : CallUpdateLookP2(dy)
    \/ \E p \in P, pitch \in PitchArgs : CallSetYawPitch(p, pitch)
    \/ \E p \in P : CallRespawnAt(p)

SpecLook == InitLook /\ [][NextLook]_vars

(***************************************************************************)
(* Collision resolution as a unit: _resolveWorldCollisions called on a     *)
(* player that stands or jumps at a wall, in its corner, at a pillar       *)
(* narrower than the player and under a ledge.                             *)
(***************************************************************************)
Box(x1, x2, y1, y2, z1, z2, off) ==
    [min |-> [x |-> x1, y |-> y1, z |-> z1], max |-> [x |-> x2, y |-> y2, z |-> z2],
     disabled |-> off]

\* A wall, a second wall that meets it in a corner and may be a door that
\* is open (its collider disabled), a pillar and a ledge above head height.
ColliderLists ==
    {<<Box(0, 200, 0, 300, 0, 100, FALSE), Box(200, 300, 0, 300, -200, 100, off),
       Box(-300, -260, 0, 300, 0, 40, FALSE), Box(-100, 0, 200, 300, 0, 100, FALSE)>> :
        off \in BOOLEAN}

Xs == {-330, -280, -235, -100, -45, -20, 100, 155, 180, 245, 320, 345}

Zs == {-245, -50, -45, -20, 20, 50, 100, 145, 150}

Ys == {0, 60, 300}

Speeds == {-600, 0, 600}

InitCollide ==
    /\ env \in {e \in Envs : e.name = "menu"}
    /\ app = [App0 EXCEPT !.state = "PLAY", !.lastTs = TRUE,
                          !.elevator = [t |-> 0, doorOpen01 |-> DOOR_OPEN, fightMsgTimer |-> 0]]
    /\ players = [p \in P |-> Player0]
    /\ weapons = [p \in P |-> WeaponState0]
    /\ world = [World0 EXCEPT !.doorDisabled = [p \in P |-> TRUE]]
    /\ tasks = [p \in P |-> NoTask]
    /\ ui = [menuMode |-> FALSE, winShown |-> FALSE, invOpen |-> FALSE]
    /\ pending = [start |-> 0, save |-> 0, fade |-> <<>>]
    /\ spent = [p \in P |-> 0]
    /\ \E x \in Xs, y \in Ys, z \in Zs, vx \in Speeds, vz \in Speeds, cs \in ColliderLists :
          body = [pos |-> [x |-> x, y |-> y, z |-> z], vel |-> [x |-> vx, y |-> 0, z |-> vz],
                  onGround |-> (y = 0), colliders |-> cs]
    /\ step = NoStep

\* _resolveWorldCollisions(p): one pass over the colliders of the world.
CallResolveWorldCollisions ==
    /\ body' = [resolveWorldCollisions(body, body.colliders) EXCEPT !.colliders = body.colliders]
    /\ step' = [NoStep EXCEPT !.op = "resolveWorldCollisions", !.from = app.state,
                              !.passes = resolvePasses(body, body.colliders)]
    /\ UNCHANGED <<app, players, weapons, world, tasks, ui, pending, env, spent>>

NextCollide == CallResolveWorldCollisions

SpecCollide == InitCollide /\ [][NextCollide]_vars

(***************************************************************************)
(* Movement as a unit: _updateMovement called frame after frame on a       *)
(* player that starts at rest near a wall, for MaxMoveFrames frames with   *)
(* any keys down, and whose controls a task locks and releases. spent      *)
(* counts the frames of p1.                                                *)
(***************************************************************************)
MaxMoveFrames == 3

MoveColliders == <<Box(60, 100, 0, 300, -500, 500, FALSE)>>

InitMove ==
    /\ env \in {e \in Envs : e.name = "menu"}
    /\ app = [App0 EXCEPT !.state = "PLAY", !.lastTs = TRUE,
                          !.elevator = [t |-> 0, doorOpen01 |-> DOOR_OPEN, fightMsgTimer |-> 0]]
    /\ players = [p \in P |-> Player0]
    /\ weapons = [p \in P |-> setWeapon(WeaponState0, KNIFE)]
    /\ world = [World0 EXCEPT !.doorDisabled = [p \in P |-> TRUE]]
    /\ tasks = [p \in P |-> NoTask]
    /\ ui = [menuMode |-> FALSE, winShown |-> FALSE, invOpen |-> FALSE]
    /\ pending = [start |-> 0, save |-> 0, fade |-> <<>>]
    /\ spent = [p \in P |-> 0]
    /\ \E x \in {0, 14} :
          body = [NoBody EXCEPT !.pos.x = x, !.colliders = MoveColliders]
    /\ step = NoStep

\* _updateMovement('p1', dt) with the keys of the frame and the yaw, a
\* number of quarter turns.
CallUpdateMovement(yawQ, keys, dt) ==
    LET b == updateMovementBody(body, players["p1"], weapons["p1"], yawQ, keys, dt)
        walks == keys.forward \/ keys.back \/ keys.left \/ keys.right
    IN  /\ spent["p1"] < MaxMoveFrames
        /\ body' = [b EXCEPT !.colliders = body.colliders]
        /\ spent' = [spent EXCEPT !["p1"] = @ + 1]
        /\ step' = [NoStep EXCEPT !.op = "updateMovement", !.from = app.state, !.who = "p1",
                                  !.amount = dt,
                                  !.intent["p1"] = IF walks THEN "walk" ELSE "idle",
                                  !.ret = (b.vel.x # 0 \/ b.vel.z # 0)]
        /\ UNCHANGED <<app, players, weapons, world, tasks, ui, pending, env>>

\* A task opens and locks the controls of p1, or closes and releases them.
MoveLock ==
    /\ players' = [players EXCEPT !["p1"].controlsLocked = ~@]
    /\ step' = [NoStep EXCEPT !.op = "lock", !.from = app.state, !.who = "p1"]
    /\ UNCHANGED <<app, weapons, world, tasks, ui, pending, env, spent, body>>

NextMove ==
    \/ \E yawQ \in 0..1, keys \in [DOMAIN NoKeys -> BOOLEAN], dt \in MoveDts :
          CallUpdateMovement(yawQ, keys, dt)
    \/ MoveLock

SpecMove == InitMove /\ [][NextMove]_vars

(***************************************************************************)
(* The respawn as a unit: _maybeRespawn called on players alive, dead and  *)
(* waiting, and dead with the death timer run out, at every task level,    *)
(* with and without a bottle and a bonus weapon.                           *)
(***************************************************************************)
\* A dead player has no health; it keeps its task level, its velocity and
\* the bottle it held until it is respawned.
RespawnStates ==
    {[Player0 EXCEPT !.hp = 0, !.dead = TRUE, !.deathTimer = d, !.taskLevel = l, !.vel = v,
                     !.hasBottle = b,
                     !.bottlePrevWeapon = IF b THEN weaponForTaskLevel(l) ELSE NoWeapon] :
        d \in {0, DT}, l \in 0..MAX_TASK_LEVEL, v \in {0, 1}, b \in BOOLEAN}
    \cup {[Player0 EXCEPT !.taskLevel = l] : l \in 0..MAX_TASK_LEVEL}

\* The weapon a dead player is left with: used, cooling down and reloading,
\* a raised Sniper, or the bottle.
RespawnWeapons ==
    {w \in WeaponStates : w.cooldown = DT /\ (w.type = KNIFE \/ w.reloadTimer = DT)}
    \cup {[setWeapon(WeaponState0, SNIPER) EXCEPT !.sniperAiming = TRUE, !.sniperZoom01 = 393],
          setWeapon(WeaponState0, BOTTLE)}

InitRespawn ==
    /\ env \in {e \in Envs : e.name = "menu"}
    /\ \E sc \in {[p \in P |-> 0], [p1 |-> 3, p2 |-> WIN_KILLS - 1]},
          bonus \in {NoWeapon, SHOTGUN, LASER} :
          app = [App0 EXCEPT !.state = "PLAY", !.lastTs = TRUE, !.scores = sc,
                             !.firstKillDone = (sc["p1"] > 0),
                             !.bonusWeapon = [p1 |-> bonus, p2 |-> NoWeapon],
                             !.elevator = [t |-> 0, doorOpen01 |-> DOOR_OPEN,
                                           fightMsgTimer |-> 0]]
    /\ players \in [P -> RespawnStates]
    /\ players["p2"] = Player0
    /\ weapons \in [P -> RespawnWeapons]
    /\ weapons["p2"] = setWeapon(WeaponState0, BOTTLE)
    /\ players["p1"].hasBottle <=> weapons["p1"].type = BOTTLE
    /\ world = [World0 EXCEPT !.doorDisabled = [p \in P |-> TRUE]]
    /\ tasks = [p \in P |-> NoTask]
    /\ ui = [menuMode |-> FALSE, winShown |-> FALSE, invOpen |-> FALSE]
    /\ pending = [start |-> 0, save |-> 0, fade |-> <<>>]
    /\ spent = [p \in P |-> 0]
    /\ body = NoBody
    /\ step = NoStep

\* _maybeRespawn(deadId, enemyId)
CallMaybeRespawn(deadId) ==
    /\ Becomes([maybeRespawn(Fresh, deadId) EXCEPT !.step.who = deadId], "maybeRespawn")
    /\ UNCHANGED <<pending, env, spent, body>>

NextRespawn == \E p \in P : CallMaybeRespawn(p)

SpecRespawn == InitRespawn /\ [][NextRespawn]_vars

(***************************************************************************)
(* The bottle as a unit: _tryPickBottle, _processFire, _tryOpenGift,       *)
(* _onTaskComplete and WeaponState.update called directly in PLAY, for a   *)
(* player p1 at every task level, with or without a bonus weapon, next to  *)
(* bottles and gifts, and a target p2 that is vulnerable, invulnerable,    *)
(* nearly dead or dead.                                                    *)
(***************************************************************************)
BottleTargets ==
    {Player0, [Player0 EXCEPT !.hp = 10000], [Player0 EXCEPT !.invulnTimer = INVULN_DURATION],
     [Player0 EXCEPT !.hp = 0, !.dead = TRUE, !.deathTimer = DEATH_TIMER]}

InitBottle ==
    /\ env \in {e \in Envs : e.name = "menu"}
    /\ \E bonus \in {NoWeapon, SHOTGUN}, l \in 0..MAX_TASK_LEVEL, t \in BottleTargets,
          g \in 0..1 :
          /\ app = [App0 EXCEPT !.state = "PLAY", !.lastTs = TRUE,
                                !.bonusWeapon = [p1 |-> bonus, p2 |-> NoWeapon],
                                !.elevator = [t |-> 0, doorOpen01 |-> DOOR_OPEN,
                                              fightMsgTimer |-> 0]]
          /\ players = [p1 |-> [Player0 EXCEPT !.taskLevel = l], p2 |-> t]
          /\ weapons = [p1 |-> setWeapon(WeaponState0, IF bonus # NoWeapon THEN bonus
                                                       ELSE weaponForTaskLevel(l)),
                        p2 |-> setWeapon(WeaponState0, KNIFE)]
          /\ world = [World0 EXCEPT !.doorDisabled = [p \in P |-> TRUE], !.gifts = g]
    /\ tasks = [p \in P |-> NoTask]
    /\ ui = [menuMode |-> FALSE, winShown |-> FALSE, invOpen |-> FALSE]
    /\ pending = [start |-> 0, save |-> 0, fade |-> <<>>]
    /\ spent = [p \in P |-> 0]
    /\ body = NoBody
    /\ step = NoStep

\* The game before a call; the step remembers what was held at the pickup.
Holding == [Fresh EXCEPT !.step.held = step.held]

\* _tryPickBottle(playerId, bottleId)
CallTryPickBottle(p, bottleId) ==
    /\ Becomes([tryPickBottle(Holding, p, bottleId) EXCEPT !.step.who = p], "tryPickBottle")
    /\ UNCHANGED <<pending, env, spent, body>>

\* _processFire with the trigger pressed or held, and the answer of the ray.
\* At most MaxShots shots are fired.
BottleFire(p, intent, ray) ==
    /\ spent[p] < MaxShots
    /\ Becomes([processFire(Holding, p, Other(p), [Idle EXCEPT !.intent = intent, !.ray = ray])
                   EXCEPT !.step.who = p],
               "fire")
    /\ spent' = [spent EXCEPT ![p] = IF p \in step'.fired THEN @ + 1 ELSE @]
    /\ UNCHANGED <<pending, env, body>>

\* _tryOpenGift(playerId)
CallTryOpenGift(p, roll) ==
    /\ world.gifts > 0
    /\ Becomes([tryOpenGift(Holding, p, roll) EXCEPT !.step.who = p], "tryOpenGift")
    /\ UNCHANGED <<pending, env, spent, body>>

\* _onTaskComplete(playerId, taskIndex): the completion of any of the three
\* tasks is delivered, that of the player's level or another one.
CallOnTaskComplete(p, taskIndex) ==
    /\ Becomes([onTaskComplete(Holding, p, taskIndex) EXCEPT !.step.who = p,
                                                             !.step.amount = taskIndex],
               "onTaskComplete")
    /\ UNCHANGED <<pending, env, spent, body>>

\* WeaponState.update(dt) while a cooldown or a reload runs.
BottleTick(p) ==
    /\ weapons[p].cooldown > 0 \/ weapons[p].reloadTimer > 0
    /\ Becomes([Holding EXCEPT !.weapons[p] = weaponUpdate(@, DT), !.step.who = p], "weaponUpdate")
    /\ UNCHANGED <<pending, env, spent, body>>

NextBottle ==
    \/ \E b \in 1..NBottles : CallTryPickBottle("p1", b)
    \/ \E intent \in {"press", "hold"},
          ray \in {NoRay, [kind |-> "target", id |-> 0, close |-> FALSE]} :
          BottleFire("p1", intent, ray)
    \/ \E roll \in BOOLEAN : CallTryOpenGift("p1", roll)
    \/ \E taskIndex \in 0..(MAX_TASK_LEVEL - 1) : CallOnTaskComplete("p1", taskIndex)
    \/ BottleTick("p1")

SpecBottle == InitBottle /\ [][NextBottle]_vars

(***************************************************************************)
(* The game from the reset of a won round on: P1 has won 10:0, P2 may hold *)
(* a bonus weapon from a gift of that round, the save listener has run     *)
(* _toMenu. The steps are those of the game; no gift and no bottle comes   *)
(* any more.                                                               *)
(***************************************************************************)
RematchEnv ==
    [name |-> "rematch2", fire |-> {"p1"}, use |-> {"p2"}, near |-> {"arcade"}, burn |-> {},
     barrels |-> FALSE, late |-> FALSE, early |-> FALSE, hurry |-> TRUE, limited |-> FALSE,
     starts |-> 1, saves |-> 1, kills |-> WIN_KILLS,
     stubborn |-> FALSE, look |-> {}, bag |-> TRUE]

\* The win screen of the round: the loser has just died.
RoundWon(bonus) ==
    [app |-> [App0 EXCEPT !.state = "WIN", !.lastTs = TRUE,
                          !.scores = [p1 |-> WIN_KILLS, p2 |-> 0],
                          !.firstKillDone = TRUE,
                          !.bonusWeapon = [p1 |-> NoWeapon, p2 |-> bonus],
                          !.elevator = [t |-> 0, doorOpen01 |-> DOOR_OPEN,
                                        fightMsgTimer |-> 0]],
     players |-> [p1 |-> [Player0 EXCEPT !.yaw = "any"],
                  p2 |-> [Player0 EXCEPT !.yaw = "any", !.hp = 0, !.dead = TRUE,
                                         !.deathTimer = DEATH_TIMER]],
     weapons |-> [p1 |-> setWeapon(WeaponState0, KNIFE),
                  p2 |-> setWeapon(WeaponState0, IF bonus = NoWeapon THEN KNIFE ELSE bonus)],
     world |-> [World0 EXCEPT !.doorDisabled = [p \in P |-> TRUE]],
     tasks |-> [p \in P |-> NoTask],
     ui |-> [menuMode |-> FALSE, winShown |-> TRUE, invOpen |-> FALSE],
     step |-> NoStep]

InitRematch ==
    /\ env = RematchEnv
    /\ \E bonus \in {NoWeapon, SHOTGUN, LASER} :
          LET G == toMenu(RoundWon(bonus))
          IN  /\ app = G.app
              /\ players = G.players
              /\ weapons = G.weapons
              /\ world = G.world
              /\ tasks = G.tasks
              /\ ui = G.ui
    /\ pending = [start |-> 0, save |-> 0, fade |-> <<>>]
    /\ spent = [p \in P |-> 0]
    /\ body = NoBody
    /\ step = NoStep

SpecRematch == InitRematch /\ [][Next]_vars

(***************************************************************************)
(* Properties.                                                             *)
(***************************************************************************)
Reaches(p) == app.scores[p] < WIN_KILLS /\ app'.scores[p] >= WIN_KILLS

\* C1: the phase becomes WIN in exactly the step in which the score of some
\* player first reaches WIN_KILLS, and the phase is never WIN while both
\* scores are below WIN_KILLS.
C1_WinExactlyAtWinKills ==
    /\ [](app.state = "WIN" => \E p \in P : app.scores[p] >= WIN_KILLS)
    /\ [][(app.state # "WIN" /\ app'.state = "WIN") <=> (\E p \in P : Reaches(p))]_vars

\* The step that scored the tenth kill has just entered WIN.
C1_Witness ==
    /\ app.state = "WIN"
    /\ step.from = "PLAY"
    /\ \E p \in step.credited : app.scores[p] = WIN_KILLS /\ app.scores[Other(p)] < WIN_KILLS

Frozen(p) ==
    /\ app'.scores[p] = app.scores[p]
    /\ players'[p].hp = players[p].hp
    /\ players'[p].dead = players[p].dead
    /\ players'[p].pos = players[p].pos
    /\ players'[p].taskLevel = players[p].taskLevel
    /\ weapons'[p] = weapons[p]

\* C2: once the phase is WIN it stays WIN until the return action (_toMenu),
\* and no step taken in WIN other than the return action changes a score, a
\* player's health, dead flag or position, a weapon state or a task level.
C2_WinIsFrozen ==
    [][app.state = "WIN" =>
          \/ step'.op = "toMenu"
          \/ app'.state = "WIN" /\ \A p \in P : Frozen(p)]_vars

\* A frame has run on the win screen, with a dead player waiting to respawn.
C2_Witness ==
    /\ app.state = "WIN"
    /\ step.op = "frame"
    /\ step.from = "WIN"
    /\ \E p \in P : players[p].dead /\ players[p].deathTimer > 0

\* C3: whenever a weapon attack of a player brings the opponent's health to
\* zero (by any of its damage components), the attacker's score grows by
\* exactly one in the same step.
C3_AttackKillScores ==
    [][\A o \in P : step'.killedBy[o] = "attack" =>
          app'.scores[Other(o)] = app.scores[Other(o)] + 1]_vars

\* C4: a score changes only by +1, in a frame in which that player's own
\* attack kills the opponent, or back to 0 in a round reset (_toMenu).
C4_ScoreSteps ==
    [][\A p \in P : app'.scores[p] # app.scores[p] =>
          \/ /\ app'.scores[p] = app.scores[p] + 1
             /\ step'.op = "frame"
             /\ step'.killedBy[Other(p)] = "attack"
          \/ /\ app'.scores[p] = 0
             /\ step'.op = "toMenu"]_vars

\* A player has just been credited its third kill.
C4_Witness ==
    \E p \in P : p \in step.credited /\ app.scores[p] = 3 /\ step.killedBy[Other(p)] = "attack"

Refusing(pl) == pl.invulnTimer > 0 \/ pl.dead

\* C5: takeDamage on an invulnerable or dead player returns false and leaves
\* health, dead flag and death timer as they are, whatever the amount.
C5_RefusedDamage ==
    [][(step'.op = "takeDamage" /\ Refusing(players[step'.who])) =>
          /\ ~step'.ret
          /\ players'[step'.who].hp = players[step'.who].hp
          /\ players'[step'.who].dead = players[step'.who].dead
          /\ players'[step'.who].deathTimer = players[step'.who].deathTimer]_vars

\* takeDamage with a lethal amount has been called on a dead player whose
\* death timer had partly run down.
C5_Witness ==
    /\ step.op = "takeDamage"
    /\ step.amount >= MAX_HP * 1000
    /\ players[step.who].dead
    /\ players[step.who].deathTimer = DT

\* C6: takeDamage on a living, not invulnerable player sets the health to
\* max(0, health - amount); it returns true exactly when the health reached
\* zero, and then the player is dead with the death timer started; only
\* respawnAt makes a dead player alive again, so that a player is reported
\* killed at most once between two respawns.
C6_AppliedDamage ==
    [][/\ (step'.op = "takeDamage" /\ ~Refusing(players[step'.who])) =>
             /\ players'[step'.who].hp = Max(0, players[step'.who].hp - step'.amount)
             /\ step'.ret <=> players'[step'.who].hp = 0
             /\ step'.ret => players'[step'.who].dead
                             /\ players'[step'.who].deathTimer = DEATH_TIMER
             /\ ~step'.ret => ~players'[step'.who].dead
       /\ (step'.op = "takeDamage" /\ step'.ret) => ~players[step'.who].dead
       /\ \A p \in P : (players[p].dead /\ ~players'[p].dead) =>
             (step'.op = "respawnAt" /\ step'.who = p)]_vars

\* takeDamage has just killed a player with an amount above its health.
C6_Witness ==
    /\ step.op = "takeDamage"
    /\ step.ret
    /\ step.amount = 150000
    /\ players[step.who].dead
    /\ players[step.who].hp = 0
    /\ players[step.who].deathTimer = DEATH_TIMER

\* C7: the phase changes only along MENU -> TRANSITION (start handler),
\* TRANSITION -> ELEVATOR (fade timeout), ELEVATOR -> PLAY and PLAY -> WIN
\* (frames) and WIN -> MENU (return handler), whatever the interleaving of
\* clicks, handlers, the fade timeout and frames.
C7_PhaseEdges ==
    [][app'.state # app.state =>
          \/ app.state = "MENU" /\ app'.state = "TRANSITION" /\ step'.op = "startHandler"
          \/ app.state = "TRANSITION" /\ app'.state = "ELEVATOR" /\ step'.op = "fadeTimeout"
          \/ app.state = "ELEVATOR" /\ app'.state = "PLAY" /\ step'.op = "frame"
          \/ app.state = "PLAY" /\ app'.state = "WIN" /\ step'.op = "frame"
          \/ app.state = "WIN" /\ app'.state = "MENU" /\ step'.op = "toMenu"]_vars

ElevatorDone(a) ==
    /\ a.elevator.t = 0
    /\ a.elevator.doorOpen01 = DOOR_OPEN
    /\ a.elevator.fightMsgTimer = 0

\* C8: a frame takes the phase from ELEVATOR to PLAY exactly when, in that
\* frame, the countdown is at 0, the door ramp has reached 1 and the fight
\* banner timer has run to 0; the open door alone does not start the fight.
C8_ElevatorToPlay ==
    [][(app.state = "ELEVATOR" /\ step'.op = "frame") =>
          (app'.state = "PLAY" <=> ElevatorDone(app'))]_vars

\* The door is fully open while the fight banner is still running.
C8_Witness ==
    /\ app.state = "ELEVATOR"
    /\ app.elevator.t = 0
    /\ app.elevator.doorOpen01 = DOOR_OPEN
    /\ app.elevator.fightMsgTimer > 0

FreshWeapon(w, type) == w = setWeapon(WeaponState0, type) /\ w.mag = getMaxMag(w)

\* C9: the step from TRANSITION to ELEVATOR winds the countdown up to its
\* starting value, zeroes door ramp and fight timer, enables both door
\* colliders, and leaves both players alive at full health, at rest at their
\* own anchor, facing opposite directions, with the freshly equipped weapon
\* of their task level.
C9_ElevatorEntry ==
    [][(app.state = "TRANSITION" /\ app'.state = "ELEVATOR") =>
          /\ app'.elevator = [t |-> ELEVATOR_T, doorOpen01 |-> 0, fightMsgTimer |-> 0]
          /\ \A p \in P :
                /\ ~world'.doorDisabled[p]
                /\ ~players'[p].dead
                /\ players'[p].hp = MAX_HP * 1000
                /\ players'[p].vel = 0
                /\ players'[p].pos = "anchor"
                /\ FreshWeapon(weapons'[p], weaponForTaskLevel(players'[p].taskLevel))
          /\ players'["p1"].yaw = "plusHalfPi"
          /\ players'["p2"].yaw = "minusHalfPi"]_vars

\* The fade timeout has just put both players into their elevators, for a
\* round that is not the first since the page was loaded.
C9_Witness ==
    /\ app.state = "ELEVATOR"
    /\ step.op = "fadeTimeout"
    /\ step.from = "TRANSITION"
    /\ step.spawned
    /\ app.lastTs
    /\ world.doorDisabled = [p \in P |-> FALSE]

\* C10: the return action taken in WIN sets the phase to MENU and, in the
\* same step, zeroes both scores and task levels, equips both players with a
\* fresh Knife, closes every open task, unlocks both players' controls and
\* puts both players back, alive at full health.
C10_ReturnResets ==
    [][(app.state = "WIN" /\ step'.op = "toMenu") =>
          /\ app'.state = "MENU"
          /\ \A p \in P :
                /\ app'.scores[p] = 0
                /\ players'[p].taskLevel = 0
                /\ FreshWeapon(weapons'[p], KNIFE)
                /\ tasks'[p] = NoTask
                /\ ~players'[p].controlsLocked
                /\ ~players'[p].dead
                /\ players'[p].hp = MAX_HP * 1000
                /\ players'[p].pos = "menu"]_vars

\* The return action has just ended a won round.
C10_Witness ==
    /\ step.op = "toMenu"
    /\ step.from = "WIN"
    /\ app.state = "MENU"
    /\ app.scores = [p \in P |-> 0]

\* Nothing of an earlier round is left in G: counters and timers are at
\* their initial values and no fire block burns.
RoundFresh(a, pls, wps, w) ==
    /\ a.scores = [p \in P |-> 0]
    /\ ~a.firstKillDone
    /\ \A p \in P :
          /\ pls[p].taskLevel = 0
          /\ pls[p].deathTimer = 0
          /\ wps[p].cooldown = 0
          /\ wps[p].reloadTimer = 0
    /\ w.fire = <<>>

\* C11: the full round reset (_toMenu) leaves scores, first-kill flag, task
\* levels, weapon cooldown and reload timers, death timers and fire block
\* lifetimes at their initial values, in one step; and when the next round
\* starts (the phase enters ELEVATOR) they still are, with the elevator
\* timers at their starting values, before its first frame is simulated.
C11_ResetLeavesNothing ==
    [][/\ step'.op = "toMenu" => RoundFresh(app', players', weapons', world')
       /\ (app.state # "ELEVATOR" /\ app'.state = "ELEVATOR") =>
             /\ RoundFresh(app', players', weapons', world')
             /\ app'.elevator = [t |-> ELEVATOR_T, doorOpen01 |-> 0, fightMsgTimer |-> 0]]_vars

\* C12: a living player with no task open that presses its use key next to
\* the arcade of task idx, in ELEVATOR or PLAY, gets the task opened and its
\* controls locked if and only if idx is its task level.
C12_OpenIffLevel ==
    [][\A p \in P :
          (/\ step'.op = "frame"
           /\ app.state \in {"ELEVATOR", "PLAY"}
           /\ step'.asked[p] # NoTask
           /\ ~players[p].dead
           /\ tasks[p] = NoTask) =>
              ((p \in step'.opened /\ players'[p].controlsLocked /\ tasks'[p] = step'.asked[p])
                  <=> step'.asked[p] = players[p].taskLevel)]_vars

\* C13: the completion of a player's open task finds the task's index equal
\* to the player's level, raises the level by exactly one, to at most
\* MAX_TASK_LEVEL, and leaves the player with the freshly equipped weapon of
\* the new level (Knife, Pistol, Vandal, Sniper for 0, 1, 2, 3); a level
\* changes in no other way, except back to 0 in a round reset.
C13_CompletionAdvances ==
    [][\A p \in P :
          /\ p \in step'.completed =>
                /\ tasks[p] = players[p].taskLevel
                /\ players'[p].taskLevel = players[p].taskLevel + 1
                /\ players'[p].taskLevel <= MAX_TASK_LEVEL
                /\ FreshWeapon(weapons'[p], weaponForTaskLevel(players'[p].taskLevel))
                /\ weapons'[p].type =
                      <<KNIFE, PISTOL, VANDAL, SNIPER>>[players'[p].taskLevel + 1]
          /\ players'[p].taskLevel # players[p].taskLevel =>
                \/ p \in step'.completed
                \/ step'.op = "toMenu" /\ players'[p].taskLevel = 0]_vars

\* A player has just completed the third task and holds the Sniper.
C13_Witness ==
    \E p \in P :
        /\ p \in step.completed
        /\ players[p].taskLevel = MAX_TASK_LEVEL
        /\ weapons[p].type = SNIPER
        /\ tasks[p] = NoTask

\* The use key of p was pressed next to an arcade, in ELEVATOR or PLAY, while
\* p was dead or had a task open.
AskedInVain(p) ==
    /\ step'.op = "frame"
    /\ app.state \in {"ELEVATOR", "PLAY"}
    /\ step'.asked[p] # NoTask
    /\ (players[p].dead \/ tasks[p] # NoTask)

C15_CloseReleases ==
    [][\A p \in P :
          /\ (p \in step'.closed \/ (tasks[p] # NoTask /\ tasks'[p] = NoTask)) =>
                /\ tasks'[p] = NoTask
                /\ ~players'[p].controlsLocked
          /\ (step'.op = "frame" /\ players[p].dead /\ tasks[p] # NoTask) =>
                p \in step'.closed]_vars

\* A frame has just closed the task of a player that died in an earlier
\* frame, and the player is still dead.
C15_Witness ==
    \E p \in P :
        /\ step.op = "frame"
        /\ p \in step.closed
        /\ players[p].dead
        /\ step.killedBy[p] = "none"
        /\ step.intent[p] # "use"
        /\ ~players[p].controlsLocked

Stuck(pl) == pl.controlsLocked \/ pl.dead

C17_LockedKeepsYaw ==
    [][\A p \in P :
          (step'.op = "frame" /\ players[p].controlsLocked /\ players'[p].controlsLocked) =>
              players'[p].yaw = players[p].yaw]_vars

Refused(w) == w.type = KNIFE \/ w.reloadTimer > 0 \/ w.mag = getMaxMag(w) \/ w.reserve = 0

Refill(r, type) == Min(r.reserve, getMaxMag([type |-> type]) - r.mag)

\* A followed reload counts its duration down with the magazine and the
\* reserve as they were, and ends with the refill moved from the reserve
\* into the magazine.
ReloadRuns(w, r) ==
    IF r.elapsed < ReloadDuration(w.type)
    THEN /\ w.reloadTimer = ReloadDuration(w.type) - r.elapsed
         /\ w.mag = r.mag
         /\ w.reserve = r.reserve
    ELSE /\ w.reloadTimer = 0
         /\ w.mag = r.mag + Refill(r, w.type)
         /\ w.reserve = r.reserve - Refill(r, w.type)

\* C18: startReload() returns false and changes nothing for a Knife, while a
\* reload is running, with a full magazine or with an empty reserve;
\* otherwise it returns true and starts the reload timer at the duration of
\* the type, and once that duration has elapsed the magazine has grown by
\* min(reserve, max - mag) and the reserve has shrunk by the same amount.
C18_ReloadGating ==
    /\ [](\A p \in P : step.reload[p].on => ReloadRuns(weapons[p], step.reload[p]))
    /\ [][step'.op = "startReload" =>
             IF Refused(weapons[step'.who])
             THEN ~step'.ret /\ weapons' = weapons
             ELSE /\ step'.ret
                  /\ weapons' = [weapons EXCEPT ![step'.who].reloadTimer =
                                                    ReloadDuration(weapons[step'.who].type)]]_vars

\* A reload started by a call of startReload with a magazine that was
\* neither empty nor full has just ended and took less than the reserve.
C18_Witness ==
    \E p \in P :
        /\ step.op = "weaponUpdate"
        /\ step.reload[p].on
        /\ step.reload[p].by = "call"
        /\ step.reload[p].elapsed = ReloadDuration(weapons[p].type)
        /\ step.reload[p].mag = 1
        /\ weapons[p].mag = getMaxMag(weapons[p])
        /\ weapons[p].reserve > 0

\* The trigger state reaches the shooting routine of the weapon: the Sniper
\* shoots on release while aiming (a click raises and releases it), the
\* Vandal while the trigger is down, the Pistol and the Knife when the
\* trigger is pressed.
Attempt(w, intent) ==
    CASE w.type = SNIPER -> (intent = "release" /\ w.sniperAiming) \/ intent = "click"
      [] w.type = VANDAL -> intent \in {"press", "hold"}
      [] OTHER -> intent \in {"press", "click"}

EmptyWithReserve(w) == w.type # KNIFE /\ w.mag = 0 /\ w.reserve > 0

\* C19: a fire attempt with an ammo weapon whose magazine is 0 and whose
\* reserve is above 0 fires no shot, leaves magazine, reserve and cooldown
\* as they are and leaves a reload running, started in that step unless one
\* was running already; when the duration of a reload started that way has
\* elapsed the magazine holds min(reserve, maxMag).
C19_EmptyMagReloads ==
    /\ [](\A p \in P :
            (step.reload[p].on /\ step.reload[p].by = "fire"
                /\ step.reload[p].elapsed = ReloadDuration(weapons[p].type)) =>
               /\ step.reload[p].mag = 0
               /\ weapons[p].mag = Min(step.reload[p].reserve, getMaxMag(weapons[p])))
    /\ [][\A p \in P :
             (step'.op = "fire" /\ step'.who = p /\ Attempt(weapons[p], step'.intent[p])
                 /\ EmptyWithReserve(weapons[p])) =>
                /\ p \notin step'.fired
                /\ weapons'[p].mag = 0
                /\ weapons'[p].reserve = weapons[p].reserve
                /\ weapons'[p].cooldown = weapons[p].cooldown
                /\ weapons'[p].reloadTimer = IF weapons[p].reloadTimer > 0
                                             THEN weapons[p].reloadTimer
                                             ELSE ReloadDuration(weapons[p].type)]_vars

\* A reload started by a fire attempt with an empty magazine has just ended
\* and left the single round of the reserve in the magazine.
C19_Witness ==
    \E p \in P :
        /\ step.op = "weaponUpdate"
        /\ step.reload[p].on
        /\ step.reload[p].by = "fire"
        /\ step.reload[p].elapsed = ReloadDuration(weapons[p].type)
        /\ step.reload[p].reserve = 1
        /\ weapons[p].mag = 1
        /\ weapons[p].reserve = 0

\* C20: a shot is carried out only in a step that found the shooter's reload
\* timer at 0, its fire cooldown at 0 and, for an ammo weapon, its magazine
\* above 0.
C20_ShotNeedsReadyWeapon ==
    [][\A p \in P :
          (step'.op = "fire" /\ p \in step'.fired) =>
             /\ weapons[p].reloadTimer = 0
             /\ weapons[p].cooldown = 0
             /\ weapons[p].type # KNIFE => weapons[p].mag > 0]_vars

\* The last round of a magazine has just been shot after the cooldown of
\* the shot before it had run out.
C20_Witness ==
    \E p \in P :
        /\ step.op = "fire"
        /\ p \in step.fired
        /\ spent[p] = MaxShots
        /\ weapons[p].type # KNIFE
        /\ weapons[p].mag = 0
        /\ weapons[p].cooldown > 0

\* C21: the magazine of a weapon holds between 0 rounds and the capacity of
\* the weapon's type, and its reserve is never below 0.
C21_AmmoInRange ==
    \A p \in P :
        /\ weapons[p].mag >= 0
        /\ weapons[p].mag <= getMaxMag(weapons[p])
        /\ weapons[p].reserve >= 0

\* A reload has just ended that emptied a reserve too small to fill the
\* magazine.
C21_Witness ==
    \E p \in P :
        /\ step.op = "weaponUpdate"
        /\ step.reload[p].on
        /\ step.reload[p].elapsed = ReloadDuration(weapons[p].type)
        /\ step.reload[p].reserve > 0
        /\ weapons[p].reserve = 0
        /\ weapons[p].mag > 0
        /\ weapons[p].mag < getMaxMag(weapons[p])

\* Magazine and reserve a type is equipped with.
Defaults(type) ==
    CASE type = KNIFE -> <<0, 0>>
      [] type = PISTOL -> <<12, 48>>
      [] type = VANDAL -> <<30, 90>>
      [] type = SNIPER -> <<5, 20>>

Equipped(w, type) ==
    /\ w.type = type
    /\ w.cooldown = 0
    /\ w.reloadTimer = 0
    /\ ~w.sniperAiming
    /\ w.sniperZoom01 = 0
    /\ <<w.mag, w.reserve>> = Defaults(type)

\* C22: setWeapon(X) leaves cooldown 0, reload timer 0, the aiming flag
\* false, zoom 0 and magazine and reserve at the defaults of X, whatever the
\* weapon was before; a second setWeapon(X) right after changes nothing.
C22_EquipIsTotal ==
    [][step'.op = "setWeapon" =>
          /\ Equipped(weapons'[step'.who], step'.arg)
          /\ step'.again => weapons' = weapons]_vars

\* A weapon that has shot was replaced by a Pistol, and setWeapon has been
\* called for the Pistol once more.
C22_Witness ==
    /\ step.op = "setWeapon"
    /\ step.again
    /\ spent[step.who] > 0
    /\ weapons[step.who].type = PISTOL
    /\ weapons[step.who].mag = 12

Ready(w) == w.reloadTimer = 0 /\ w.cooldown = 0 /\ (w.type = KNIFE \/ w.mag > 0)

\* C23: a press with the Sniper fires nothing by itself and sets the aiming
\* flag, which is set on an equipped Sniper only; a shot is fired only by a
\* release that finds the flag set and the weapon able to fire, it is one
\* shot, and a release clears the flag, so that the next shot needs a new
\* press.
C23_SniperPressThenRelease ==
    /\ [](\A p \in P : weapons[p].sniperAiming => weapons[p].type = SNIPER)
    /\ [][\A p \in P :
             (step'.op = "fire" /\ step'.who = p /\ weapons[p].type = SNIPER) =>
                /\ step'.intent[p] = "press" =>
                       p \notin step'.fired /\ weapons'[p].sniperAiming
                /\ step'.intent[p] = "hold" =>
                       p \notin step'.fired /\ weapons'[p] = weapons[p]
                /\ step'.intent[p] \in {"release", "click"} => ~weapons'[p].sniperAiming
                /\ p \in step'.fired =>
                       /\ \/ step'.intent[p] = "release" /\ weapons[p].sniperAiming
                          \/ step'.intent[p] = "click"
                       /\ Ready(weapons[p])
                       /\ weapons'[p].mag = weapons[p].mag - 1]_vars

\* A Sniper that was raised for a frame has been released and has shot.
C23_Witness ==
    \E p \in P :
        /\ step.op = "fire"
        /\ step.intent[p] = "release"
        /\ p \in step.fired
        /\ weapons[p].type = SNIPER
        /\ weapons[p].sniperZoom01 > 0
        /\ ~weapons[p].sniperAiming

\* Fire interval of a type (ms).
Interval(type) ==
    CASE type = KNIFE -> 450
      [] type = PISTOL -> 220
      [] type = VANDAL -> 110
      [] type = SNIPER -> 850

FourNewBlocks(f) ==
    /\ Len(f) >= 4
    /\ \A i \in (Len(f) - 3)..Len(f) : f[i] = BARREL_FIRE_LIFETIME

\* C26: explodeBarrel(id) on a barrel that has not exploded returns its
\* position, marks it exploded, disables its collider and spawns its four
\* fire blocks; on a barrel that has exploded (and on an id of no barrel) it
\* returns null and changes nothing; an exploded barrel stays exploded.
C26_ExplodesOnce ==
    /\ [][world.exploded \subseteq world'.exploded]_vars
    /\ [][step'.op = "explodeBarrel" =>
             IF step'.barrel \in 1..NBarrels /\ step'.barrel \notin world.exploded
             THEN /\ step'.ret
                  /\ world'.exploded = world.exploded \cup {step'.barrel}
                  /\ world'.barrelOff = world.barrelOff \cup {step'.barrel}
                  /\ FourNewBlocks(world'.fire)
                  /\ Len(world'.fire) = Min(MAX_FIRE_BLOCKS, Len(world.fire) + 4)
             ELSE ~step'.ret /\ world' = world]_vars

\* explodeBarrel has been called again for a barrel whose fire still burns.
C26_Witness ==
    /\ step.op = "explodeBarrel"
    /\ ~step.ret
    /\ step.barrel \in world.exploded
    /\ Len(world.fire) = 4
    /\ \A i \in 1..4 : world.fire[i] < BARREL_FIRE_LIFETIME

\* C30: the pitch of a player lies between -1.35 rad and 1.35 rad, whether
\* look keys, pointer motion, setYawPitch or a respawn last touched the player.
C30_PitchClamped ==
    \A p \in P : players[p].pitch >= -13500 /\ players[p].pitch <= 13500

\* Pointer motion has just driven the pitch of p2 against the lower end of
\* the range, after look keys had tilted p1 part of the way.
C30_Witness ==
    /\ step.op = "updateLook"
    /\ step.who = "p2"
    /\ players["p2"].pitch = -13500
    /\ players["p1"].pitch \notin {-13500, 0, 13500}

DepthX(pos, c) == Min(pos.x + 45 - c.min.x, c.max.x - (pos.x - 45))

DepthZ(pos, c) == Min(pos.z + 45 - c.min.z, c.max.z - (pos.z - 45))

Abs(n) == IF n < 0 THEN -n ELSE n

PushedAlongX(b0, b1, c) ==
    /\ Abs(b1.pos.x - b0.pos.x) = DepthX(b0.pos, c)
    /\ b1.pos.z = b0.pos.z
    /\ b1.vel = [b0.vel EXCEPT !.x = 0]

PushedAlongZ(b0, b1, c) ==
    /\ Abs(b1.pos.z - b0.pos.z) = DepthZ(b0.pos, c)
    /\ b1.pos.x = b0.pos.x
    /\ b1.vel = [b0.vel EXCEPT !.z = 0]

\* The body b0 that came to collider c left it as b1.
Resolved(b0, b1, c) ==
    IF c.disabled \/ ~boxesMeet(b0.pos, c) THEN b1 = b0
    ELSE /\ ~(DepthX(b1.pos, c) > 0 /\ DepthZ(b1.pos, c) > 0)
         /\ b1.pos.y = b0.pos.y
         /\ DepthX(b0.pos, c) < DepthZ(b0.pos, c) => PushedAlongX(b0, b1, c)
         /\ DepthZ(b0.pos, c) < DepthX(b0.pos, c) => PushedAlongZ(b0, b1, c)
         /\ PushedAlongX(b0, b1, c) \/ PushedAlongZ(b0, b1, c)

\* C27: when _resolveWorldCollisions has processed an enabled collider that
\* the box of the player met, the box no longer overlaps that collider with
\* positive depth on both the x and the z axis: the player was pushed out by
\* the penetration along the axis of the smaller penetration and its
\* velocity along that axis set to 0; a disabled collider and a collider the
\* box does not meet leave the player as it is.
C27_PushedOut ==
    step.op = "resolveWorldCollisions" =>
        /\ Len(step.passes) = Len(body.colliders) + 1
        /\ body.pos = step.passes[Len(step.passes)].pos
        /\ \A i \in 1..Len(body.colliders) :
               Resolved(step.passes[i], step.passes[i + 1], body.colliders[i])

\* A player that ran into the corner of two walls was pushed out of the
\* first wall along z and then out of the second wall along x.
C27_Witness ==
    /\ step.op = "resolveWorldCollisions"
    /\ ~body.colliders[2].disabled
    /\ step.passes[2].pos.z # step.passes[1].pos.z
    /\ step.passes[3].pos.x # step.passes[2].pos.x
    /\ step.passes[1].vel.x = 600
    /\ step.passes[1].vel.z = 600
    /\ body.vel.x = 0
    /\ body.vel.z = 0

FrameDt == IF app.lastTs THEN 50 ELSE 0

\* C28: in a frame of ELEVATOR or PLAY a dead player is respawned iff its
\* death timer, counted down by the frame, has reached 0, so never while
\* the timer is above 0 and always in the first frame that finds it at 0;
\* a frame of MENU, TRANSITION or WIN respawns nobody; _maybeRespawn
\* respawns nobody outside a frame.
C28_RespawnWhenTimerOut ==
    [][\A p \in P :
          /\ p \in step'.respawned =>
                 step'.op = "frame" /\ players[p].dead /\ ~players'[p].dead
          /\ step'.op = "frame" =>
                 IF step'.from \in {"ELEVATOR", "PLAY"}
                 THEN /\ p \in step'.respawned <=>
                            players[p].dead /\ players[p].deathTimer - FrameDt <= 0
                      /\ (players[p].dead /\ players[p].deathTimer - FrameDt > 0) =>
                            /\ players'[p].dead
                            /\ players'[p].deathTimer = players[p].deathTimer - FrameDt
                 ELSE /\ p \notin step'.respawned
                      /\ players'[p].dead = players[p].dead]_vars

\* A frame of PLAY has respawned a player whose death timer had one frame
\* left.
C28_Witness ==
    \E p \in P :
        /\ step.op = "frame"
        /\ step.from = "PLAY"
        /\ p \in step.respawned
        /\ ~players[p].dead
        /\ players[p].deathTimer = 0
        /\ players[p].invulnTimer = 3000

LevelWeapon(level) ==
    CASE level = 0 -> KNIFE
      [] level = 1 -> PISTOL
      [] level = 2 -> VANDAL
      [] level = 3 -> SNIPER

Unused(w) ==
    /\ w.cooldown = 0
    /\ w.reloadTimer = 0
    /\ ~w.sniperAiming
    /\ w.sniperZoom01 = 0
    /\ w.type \in {KNIFE, PISTOL, VANDAL, SNIPER} => <<w.mag, w.reserve>> = Defaults(w.type)

\* C29: a player _maybeRespawn has respawned is alive with full health, no
\* velocity, three seconds of invulnerability and no bottle, and holds an
\* unused weapon: the bonus weapon granted to it if there is one, else the
\* weapon of its task level; the task level and the scores are as before.
C29_RespawnedFresh ==
    [][\A p \in P :
          (step'.op = "maybeRespawn" /\ p \in step'.respawned) =>
             /\ ~players'[p].dead
             /\ players'[p].hp = 100000
             /\ players'[p].vel = 0
             /\ players'[p].invulnTimer = 3000
             /\ ~players'[p].hasBottle
             /\ players'[p].bottlePrevWeapon = NoWeapon
             /\ players'[p].taskLevel = players[p].taskLevel
             /\ app'.scores = app.scores
             /\ weapons'[p].type = IF app.bonusWeapon[p] # NoWeapon THEN app.bonusWeapon[p]
                                   ELSE LevelWeapon(players[p].taskLevel)
             /\ Unused(weapons'[p])]_vars

\* A player at task level 2 that had been granted the beam weapon has been
\* respawned with it, while the enemy stays one kill short of the win.
C29_Witness ==
    /\ step.op = "maybeRespawn"
    /\ "p1" \in step.respawned
    /\ app.bonusWeapon["p1"] = LASER
    /\ weapons["p1"].type = LASER
    /\ players["p1"].taskLevel = 2
    /\ app.scores["p2"] = 9

\* C31: a bottle attack that meets the hitbox of the opponent ends with the
\* shooter holding the weapon type it held when it picked the bottle up and
\* with its bottle flag cleared; a bottle attack that misses leaves the
\* bottle equipped and the flag set.
C31_BottleBreaksOnHit ==
    [][\A p \in P :
          (step'.op = "fire" /\ step'.who = p /\ weapons[p].type = BOTTLE
              /\ p \in step'.fired) =>
             IF p \in step'.struck
             THEN /\ weapons'[p].type = step.held[p]
                  /\ ~players'[p].hasBottle
             ELSE /\ weapons'[p].type = BOTTLE
                  /\ players'[p].hasBottle]_vars

\* A bottle picked up with the Pistol in hand has broken on an opponent that
\* was invulnerable, and the Pistol is back.
C31_Witness ==
    /\ step.op = "fire"
    /\ "p1" \in step.struck
    /\ "p2" \in step.refused
    /\ step.held["p1"] = PISTOL
    /\ weapons["p1"].type = PISTOL
    /\ ~players["p1"].hasBottle

Sign(n) == IF n > 0 THEN 1 ELSE IF n < 0 THEN -1 ELSE 0

\* exp(-10 * dt) in thousandths.
Decay(dt) ==
    CASE dt = 0 -> 1000
      [] dt = 16 -> 852
      [] dt = 50 -> 607

\* C32: in a frame with no movement key down each horizontal velocity
\* component keeps its sign or becomes 0 and its magnitude does not grow;
\* for a living player with free controls it is the component before the
\* frame times exp(-10 * dt), rounded towards zero, or 0.
C32_DampingNeverReverses ==
    [][(step'.op = "updateMovement" /\ step'.intent["p1"] = "idle") =>
          \A c \in {"x", "z"} :
             /\ Sign(body'.vel[c]) \in {Sign(body.vel[c]), 0}
             /\ Abs(body'.vel[c]) <= Abs(body.vel[c])
             /\ (~players["p1"].dead /\ ~players["p1"].controlsLocked) =>
                    \/ body'.vel[c] = 0
                    \/ /\ Abs(body'.vel[c]) * 1000 <= Abs(body.vel[c]) * Decay(step'.amount)
                       /\ (Abs(body'.vel[c]) + 1) * 1000 > Abs(body.vel[c]) * Decay(step'.amount)]_vars

\* With no key down the player still drifts towards -x and +z, slower than
\* in the frame before.
C32_Witness ==
    /\ step.op = "updateMovement"
    /\ step.intent["p1"] = "idle"
    /\ step.amount = 16
    /\ body.vel.x < 0
    /\ body.vel.z > 0

\* C33: during ELEVATOR and PLAY a player's controls are locked only while
\* its task UI is open.
C33_LockedOnlyByTask ==
    app.state \in {"ELEVATOR", "PLAY"} =>
        \A p \in P : players[p].controlsLocked => tasks[p] # NoTask

\* C34: when P2 presses its use button in a frame of ELEVATOR or PLAY, its
\* toggle is processed in that frame whatever P1's use key did: its open
\* task closes; or, with no task open, the gift next to it is opened, the
\* bottle next to it is picked up (unless P1 reached for a gift or a bottle
\* as well), or the arcade task of its level opens.
C34_P2UseIndependent ==
    [][(step'.op = "frame" /\ app.state \in {"ELEVATOR", "PLAY"}
           /\ step'.used["p2"] # "idle") =>
          LET pl == players["p2"]
              near == step'.used["p2"]
              free == ~pl.dead /\ ~pl.controlsLocked
          IN  /\ (tasks["p2"] # NoTask /\ near \in {"arcade", "none"}) => "p2" \in step'.closed
              /\ (near = "gift" /\ free /\ step'.used["p1"] # "gift") =>
                     /\ app'.bonusWeapon["p2"] \in {LASER, SHOTGUN}
                     /\ world'.gifts <= world.gifts
              /\ (near = "bottle" /\ free /\ weapons["p2"].type # BOTTLE
                     /\ step'.used["p1"] # "bottle") =>
                     step'.held["p2"] = weapons["p2"].type
              /\ (near = "arcade" /\ tasks["p2"] = NoTask /\ ~pl.dead
                     /\ step'.asked["p2"] = pl.taskLevel) => "p2" \in step'.opened]_vars

C36_StaleCompletionIgnored ==
    [][\A p \in P :
          (step'.op = "onTaskComplete" /\ step'.who = p) =>
             IF step'.amount # players[p].taskLevel
             THEN /\ players' = players
                  /\ weapons' = weapons
             ELSE /\ players'[p].taskLevel = players[p].taskLevel + 1
                  /\ step'.amount # players'[p].taskLevel]_vars

\* A completion is delivered for a task below the player's level, as its
\* second delivery is, while the player holds a weapon that is not the one
\* of its level.
C36_Witness ==
    /\ step.op = "onTaskComplete"
    /\ step.who = "p1"
    /\ step.amount + 1 = players["p1"].taskLevel
    /\ weapons["p1"].type # weaponForTaskLevel(players["p1"].taskLevel)

\* C37: under fair frames every ELEVATOR phase ends: the countdown reaches 0,
\* the door ramp reaches 1 and the phase becomes PLAY (or WIN).
C37_ElevatorEnds ==
    (app.state = "ELEVATOR") ~> (app.state \in {"PLAY", "WIN"})

\* The part of it about the timers: under fair frames no ride lasts forever.
ElevatorIsLeft ==
    (app.state = "ELEVATOR") ~> (app.state # "ELEVATOR")

\* C38: in every reachable state a player's health lies in [0, maxHp], and
\* the player is dead if and only if its health is 0.
C38_HealthInRange ==
    \A p \in P :
        /\ players[p].hp >= 0
        /\ players[p].hp <= MAX_HP * 1000
        /\ players[p].dead <=> players[p].hp = 0

\* A frame has brought the health of a player to 0 and the player is dead.
C38_Witness ==
    \E p \in P :
        /\ step.op = "frame"
        /\ step.killedBy[p] # "none"
        /\ players[p].dead
        /\ players[p].hp = 0

\* C39: a bonus weapon granted in one round does not survive the round
\* reset: after _toMenu and a new start, every respawn of a player of task
\* level 0 that has picked up nothing in the new round leaves the player
\* with the Knife. (Every step of SpecRematch comes after the reset, and no
\* gift or bottle can be picked up in it.)
C39_BonusEndsWithRound ==
    [][\A p \in P :
          (step'.op = "frame" /\ p \in step'.respawned /\ players[p].taskLevel = 0) =>
             weapons'[p].type = KNIFE]_vars

\* C40: no task completion takes effect for a dead player: a completion
\* delivered for a player that is dead, or that died in the same frame,
\* changes neither the player's task level nor its weapon.
C40_NoCompletionForDead ==
    [][\A p \in P :
          (p \in step'.completed /\ players'[p].dead) =>
             /\ players'[p].taskLevel = players[p].taskLevel
             /\ weapons'[p].type = weapons[p].type]_vars

====
